---- MODULE Spec2Model ----
(***************************************************************************)
(* Job lifecycle and partner ("IP") assignment of the partner-app          *)
(* dashboard back end (FastAPI + SQLAlchemy).                              *)
(*                                                                         *)
(* The committed rows of the tables jobs, ip_user, job_status_logs and     *)
(* ip_user_admin_assignments are the variables jobs, is_assigned,          *)
(* job_status_logs and admin_assignments.  Every HTTP request owns one     *)
(* SQLAlchemy Session (database.py get_db): its identity map, its flushed  *)
(* but uncommitted UPDATEs and the row locks it holds are the variable     *)
(* session / row_lock.  A request is a sequence of steps:                  *)
(*    route handler  (get_job_by_id loads the Job and, by joinedload, its  *)
(*                    assigned ip into the identity map)                   *)
(*    crud function  (checks on the loaded objects, assign_ip/unassign_ip  *)
(*                    with flush, pending status write and log insert)     *)
(*    db.commit()    or a storage failure followed by db.rollback()        *)
(***************************************************************************)
EXTENDS Integers, Sequences, FiniteSets, TLC

\* ------------------------------------------------------------------ bounds
MaxLogRows == 3        \* rows the table job_status_logs holds at most
MaxIssues == 2         \* codes generated at most, over all jobs and purposes
MaxNow == 2            \* ticks of the clock

\* --------------------------------------------------------------- universes
JobIds == {1, 2}                \* ids of the jobs ever created
IpIds == {1, 2}                 \* existing rows of ip_user
NoIp == 0                       \* assigned_ip_id IS NULL
MissingIp == 3                  \* an id with no ip_user row
AdminIds == {1, 2}              \* rows of admin
SuperAdmins == {2}              \* admins with is_superadmin = True
Slots == {1, 2}                 \* concurrently served requests
Statuses == {"created", "in_progress", "paused", "completed"}
ChecklistIds == {1}             \* rows of checklists
Otps == {1, 2}                  \* values of generate_otp
NoOtp == 0                      \* None, as the value of an otp or expiry attribute
OTP_EXPIRY_MINUTES == 1         \* settings.OTP_EXPIRY_MINUTES, in ticks of the clock

VARIABLES
    jobs,               \* [JobIds -> row of table jobs]
    is_assigned,        \* [IpIds -> BOOLEAN], column ip_user.is_assigned
    admin_assignments,  \* set of <<admin_id, ip_id>>, table ip_user_admin_assignments
    job_status_logs,    \* [JobIds -> Seq(status)], rows of job_status_logs in insertion order
    log_created_at,     \* [JobIds -> Seq(time)], job_status_logs.created_at of these rows
    jobs_checklists,    \* [JobIds -> SUBSET ChecklistIds], rows of jobs_checklists
    jobs_checklist_item_status,  \* Seq(row), rows of jobs_checklist_item_status by id
    next_job_id,        \* autoincrement of jobs.id
    sent_otps,          \* [JobIds -> codes generated for the customer, per purpose, in order]
    now,                \* datetime.now(timezone.utc), in ticks
    pc,                 \* [Slots -> position of the request served in that slot]
    req,                \* [Slots -> the request: operation, job, acting admin, patch]
    session,            \* [Slots -> SQLAlchemy Session state of the request]
    row_lock,           \* [IpIds -> slot holding the row lock of the ip_user row, 0 if free]
    result              \* [Slots -> last response sent from that slot]

vars == <<jobs, is_assigned, admin_assignments, job_status_logs, log_created_at, jobs_checklists,
          jobs_checklist_item_status, next_job_id, sent_otps, now, pc, req, session, row_lock,
          result>>
db == <<jobs, is_assigned, admin_assignments, job_status_logs, log_created_at, jobs_checklists,
        jobs_checklist_item_status, next_job_id>>

\* ------------------------------------------------------------------- rows
\* The fields start_otp, start_otp_expiry, end_otp and end_otp_expiry are what
\* a later request finds of the attributes of these names that
\* CustomerOTPService sets on a Job: see Stored.
NoJob == [exists |-> FALSE, status |-> "none", assigned_ip_id |-> NoIp,
          customer_phone |-> FALSE, start_otp_verified |-> FALSE,
          end_otp_verified |-> FALSE,
          start_otp |-> NoOtp, start_otp_expiry |-> NoOtp,
          end_otp |-> NoOtp, end_otp_expiry |-> NoOtp]

Job(st, p, phone) == [exists |-> TRUE, status |-> st, assigned_ip_id |-> p,
                      customer_phone |-> phone, start_otp_verified |-> FALSE,
                      end_otp_verified |-> FALSE,
                      start_otp |-> NoOtp, start_otp_expiry |-> NoOtp,
                      end_otp |-> NoOtp, end_otp_expiry |-> NoOtp]

\* class Job with the attributes CustomerOTPService assigns mapped as columns.
JobColumns_OtpMapped ==
    {"id", "customer_id", "assigned_ip_id", "status", "delivery_date",
     "created_at", "additional_expense", "job_rate_id", "area",
     "admin_assigned", "name", "start_date", "checklist_link",
     "google_map_link", "start_otp_verified", "end_otp_verified",
     "start_otp", "start_otp_expiry", "end_otp", "end_otp_expiry"}

\* Mapped attributes of class Job; an attribute that is not in this set is
\* not loaded from the row and does not exist on a freshly loaded instance.
JobColumns == {"id", "customer_id", "assigned_ip_id", "status", "delivery_date",
               "created_at", "additional_expense", "job_rate_id", "area",
               "admin_assigned", "name", "start_date", "checklist_link",
               "google_map_link", "start_otp_verified", "end_otp_verified"}

NoReq == [op |-> "none", job_id |-> 0, admin_id |-> 0, ip_set |-> FALSE,
          new_ip |-> NoIp, status_set |-> FALSE, new_status |-> "none"]

NoSession == [job |-> NoJob,            \* the Job object (current attribute values)
              loaded |-> NoJob,         \* its attribute values as loaded from the row
              ip_seen |-> {},           \* ip objects present in the identity map
              ip_val |-> [p \in IpIds |-> FALSE],   \* their is_assigned attribute
              ip_flushed |-> {},        \* ip rows with a flushed, uncommitted UPDATE
              log |-> <<>>,             \* JobStatusLog objects added, not yet inserted
              log_at |-> 0,             \* created_at of the JobStatusLog added
              deleted |-> FALSE,        \* db.delete(db_job) was called
              status_id |-> 0,          \* id of the JobChecklistItemStatus loaded, 0: none
              status_row |-> <<>>]      \* its attribute values as loaded

Response(code, kind, st, cj) == [code |-> code, kind |-> kind, status |-> st, conflict |-> cj]
NoResponse == Response(0, "none", "none", 0)
Ok == Response(200, "ok", "none", 0)

\* No code was generated for the job; job_start_expiry and job_end_expiry are
\* the expiry_time computed for the last code of the purpose.
NoOtps == [job_start |-> <<>>, job_end |-> <<>>,
           job_start_expiry |-> 0, job_end_expiry |-> 0]

Init ==
    /\ jobs = [j \in JobIds |-> NoJob]
    /\ is_assigned = [p \in IpIds |-> FALSE]
    /\ admin_assignments = {<<1, 1>>}
    /\ job_status_logs = [j \in JobIds |-> <<>>]
    /\ log_created_at = [j \in JobIds |-> [i \in 1..Len(job_status_logs[j]) |-> 0]]
    /\ jobs_checklists = [j \in JobIds |-> {}]
    /\ jobs_checklist_item_status = <<>>
    /\ next_job_id = 1
    /\ sent_otps = [j \in JobIds |-> NoOtps]
    /\ now = 0
    /\ pc = [r \in Slots |-> "idle"]
    /\ req = [r \in Slots |-> NoReq]
    /\ session = [r \in Slots |-> NoSession]
    /\ row_lock = [p \in IpIds |-> 0]
    /\ result = [r \in Slots |-> NoResponse]

\* ---------------------------------------------------------------- helpers
is_admin_allowed_for_ip(ip_id, admin_id) == <<admin_id, ip_id>> \in admin_assignments

is_superadmin(admin_id) == admin_id \in SuperAdmins

AllIdle == \A r \in Slots : pc[r] = "idle"

\* Number of rows of job_status_logs; a request that would insert one more
\* than MaxLogRows is not explored.
RECURSIVE LogRows(_)
LogRows(S) == IF S = {} THEN 0
              ELSE LET j == CHOOSE x \in S : TRUE
                   IN Len(job_status_logs[j]) + LogRows(S \ {j})
LogRoom == LogRows(JobIds) < MaxLogRows

\* SELECT ... FOR UPDATE and UPDATE wait while another transaction holds the row.
CanLock(r, p) == row_lock[p] \in {0, r}
Release(r) == [p \in IpIds |-> IF row_lock[p] = r THEN 0 ELSE row_lock[p]]

\* The value of ip.is_assigned a query of session s sees: the object of the
\* identity map when the row was loaded before (Query does not refresh the
\* attributes of an object that is already present, also under
\* with_for_update()), else the committed row.
Seen(s, p) == IF p \in s.ip_seen THEN s.ip_val[p] ELSE is_assigned[p]

\* crud/ip.py assign_ip, lines 48-51: the in_progress job of the partner, if any.
ActiveJobs(p) == {j \in JobIds : jobs[j].exists /\ jobs[j].assigned_ip_id = p
                                 /\ jobs[j].status = "in_progress"}
ActiveJobChoice(p) == IF p \notin IpIds \/ ActiveJobs(p) = {} THEN {0} ELSE ActiveJobs(p)

\* assign_ip without the check of lines 58-59.
assign_ip_NoAuthCheck(s, ip_id, admin_id, super, cj) ==
    IF ip_id \notin IpIds THEN Response(404, "NotFound", "none", 0)
    ELSE IF Seen(s, ip_id) THEN Response(400, "Conflict", "none", cj)
    ELSE Ok

\* crud/ip.py assign_ip: the checks, in the order of the code; cj is the job
\* the query of lines 48-51 returned.
assign_ip(s, ip_id, admin_id, super, cj) ==
    IF ip_id \notin IpIds THEN Response(404, "NotFound", "none", 0)
    ELSE IF Seen(s, ip_id) THEN Response(400, "Conflict", "none", cj)
    ELSE IF ~super /\ ~is_admin_allowed_for_ip(ip_id, admin_id)
         THEN Response(403, "Forbidden", "none", 0)
    ELSE Ok

\* unassign_ip without the check of lines 84-85.
unassign_ip_NoAuthCheck(s, ip_id, admin_id, super) ==
    IF ip_id \notin IpIds THEN Response(404, "NotFound", "none", 0) ELSE Ok

\* unassign_ip refusing a partner that is not assigned.
unassign_ip_RefusesFree(s, ip_id, admin_id, super) ==
    IF ip_id \notin IpIds THEN Response(404, "NotFound", "none", 0)
    ELSE IF ~super /\ ~is_admin_allowed_for_ip(ip_id, admin_id)
         THEN Response(403, "Forbidden", "none", 0)
    ELSE IF ~Seen(s, ip_id) THEN Response(400, "Conflict", "none", 0)
    ELSE Ok

\* crud/ip.py unassign_ip: the checks, in the order of the code.
unassign_ip(s, ip_id, admin_id, super) ==
    IF ip_id \notin IpIds THEN Response(404, "NotFound", "none", 0)
    ELSE IF ~super /\ ~is_admin_allowed_for_ip(ip_id, admin_id)
         THEN Response(403, "Forbidden", "none", 0)
    ELSE Ok

\* ip_user.is_assigned = True; db.flush(): the UPDATE is sent, not committed.
Assigned(s, p) == [s EXCEPT !.ip_seen = @ \cup {p}, !.ip_val[p] = TRUE,
                            !.ip_flushed = @ \cup {p}]

\* ip_user.is_assigned = False; db.flush(): an UPDATE is sent only when the
\* attribute changed with respect to the value the object had.
Unassigned(s, p) == [s EXCEPT !.ip_seen = @ \cup {p}, !.ip_val[p] = FALSE,
                              !.ip_flushed = IF Seen(s, p) THEN @ \cup {p} ELSE @]

\* assign_ip and unassign_ip called with their default, commit=True.
CommitEachCall == TRUE

\* The commit argument the functions of crud/job.py pass to assign_ip and
\* unassign_ip (commit=False at lines 267, 269, 351, 383, 417, 452).
LifecycleCommitArg == FALSE

\* assign_ip / unassign_ip called with commit=True call db.commit(): the
\* flushed UPDATEs of the session are committed rows from then on.
FlagsAfter(s, commit) ==
    IF commit THEN [p \in IpIds |-> IF p \in s.ip_flushed THEN s.ip_val[p] ELSE is_assigned[p]]
    ELSE is_assigned

\* ------------------------------------------------------ crud functions
\* The functions of crud/job.py up to, not including, their db.commit().
\* Each is given the session s of the request (the Job loaded by the route's
\* get_job_by_id, which the function's own query returns unrefreshed from the
\* identity map) and the request rq, and yields the response so far, the
\* session, the ip_user row it had to lock (0: none) and where it goes next.
Out(resp, s, lock, next) == [resp |-> resp, s |-> s, lock |-> lock, next |-> next]

NotFoundJob(s) == Out(Response(404, "NotFound", "none", 0), s, 0, "done")

\* start_job without the check of lines 373-375.
start_job_NoStatusCheck(s, rq, cj) ==
    LET a == rq.admin_id
        p == s.job.assigned_ip_id
        resp == assign_ip(s, p, a, is_superadmin(a), cj)
    IN
    IF ~jobs[rq.job_id].exists THEN NotFoundJob(s)
    ELSE IF p = NoIp THEN Out(Response(400, "ValidationError", "none", 0), s, 0, "done")
    ELSE IF resp.kind # "ok" THEN Out(resp, s, p, "done")
    ELSE Out(Ok, [Assigned(s, p) EXCEPT !.job.status = "in_progress",
                                        !.log = <<"in_progress">>,
                                        !.log_at = now], p, "commit")

\* start_job without the check of lines 377-381.
start_job_NoPartnerCheck(s, rq, cj) ==
    LET a == rq.admin_id
        p == s.job.assigned_ip_id
        resp == assign_ip(s, p, a, is_superadmin(a), cj)
    IN
    IF ~jobs[rq.job_id].exists THEN NotFoundJob(s)
    ELSE IF s.job.status \notin {"created", "paused"}
         THEN Out(Response(400, "InvalidTransition", s.job.status, 0), s, 0, "done")
    ELSE IF resp.kind # "ok" THEN Out(resp, s, 0, "done")
    ELSE Out(Ok, [Assigned(s, p) EXCEPT !.job.status = "in_progress",
                                        !.log = <<"in_progress">>,
                                        !.log_at = now], p, "commit")

\* crud/job.py start_job
start_job(s, rq, cj) ==
    LET a == rq.admin_id
        p == s.job.assigned_ip_id
        resp == assign_ip(s, p, a, is_superadmin(a), cj)
    IN
    IF ~jobs[rq.job_id].exists THEN NotFoundJob(s)
    ELSE IF s.job.status \notin {"created", "paused"}
         THEN Out(Response(400, "InvalidTransition", s.job.status, 0), s, 0, "done")
    ELSE IF p = NoIp THEN Out(Response(400, "ValidationError", "none", 0), s, 0, "done")
    ELSE IF resp.kind # "ok" THEN Out(resp, s, p, "done")
    ELSE Out(Ok, [Assigned(s, p) EXCEPT !.job.status = "in_progress",
                                        !.log = <<"in_progress">>,
                                        !.log_at = now], p, "commit")

\* crud/job.py pause_job and finish_job differ in the status they write.
ReleaseAndSet(s, rq, st) ==
    LET a == rq.admin_id
        p == s.job.assigned_ip_id
        resp == unassign_ip(s, p, a, is_superadmin(a))
        t == IF p = NoIp THEN s ELSE Unassigned(s, p)
    IN
    IF ~jobs[rq.job_id].exists THEN NotFoundJob(s)
    ELSE IF s.job.status # "in_progress"
         THEN Out(Response(400, "InvalidTransition", s.job.status, 0), s, 0, "done")
    ELSE IF p # NoIp /\ resp.kind # "ok" THEN Out(resp, s, 0, "done")
    ELSE Out(Ok, [t EXCEPT !.job.status = st, !.log = <<st>>, !.log_at = now],
             IF p # NoIp /\ Seen(s, p) THEN p ELSE 0, "commit")

\* pause_job without the db.add(JobStatusLog(...)) of lines 420-427.
pause_job_NoLog(s, rq) ==
    LET o == ReleaseAndSet(s, rq, "paused") IN [o EXCEPT !.s.log = <<>>]

\* crud/job.py pause_job
pause_job(s, rq) == ReleaseAndSet(s, rq, "paused")

\* crud/job.py finish_job
finish_job(s, rq) == ReleaseAndSet(s, rq, "completed")

\* crud/job.py delete_job
delete_job(s, rq) ==
    LET a == rq.admin_id
        p == s.job.assigned_ip_id
        resp == unassign_ip(s, p, a, is_superadmin(a))
        t == IF p = NoIp THEN s ELSE Unassigned(s, p)
    IN
    IF ~jobs[rq.job_id].exists THEN NotFoundJob(s)
    ELSE IF p # NoIp /\ resp.kind # "ok" THEN Out(resp, s, 0, "done")
    ELSE Out(Ok, [t EXCEPT !.deleted = TRUE],
             IF p # NoIp /\ Seen(s, p) THEN p ELSE 0, "commit")

\* crud/job.py update_job lines 262-265 decide a reassignment on the loaded Job.
Reassigns(s, rq) ==
    /\ rq.ip_set
    /\ s.job.status = "in_progress"
    /\ rq.new_ip # s.job.assigned_ip_id

\* update_job setting assigned_ip_id only on an in_progress job.
Patched_InProgressOnly(s, rq) ==
    [s EXCEPT !.job.assigned_ip_id =
                 IF rq.ip_set /\ s.loaded.status = "in_progress" THEN rq.new_ip ELSE @,
              !.job.status = IF rq.status_set THEN rq.new_status ELSE @]

\* crud/job.py update_job lines 270 and 319-330: the attributes the patch sets.
Patched(s, rq) ==
    [s EXCEPT !.job.assigned_ip_id = IF rq.ip_set THEN rq.new_ip ELSE @,
              !.job.status = IF rq.status_set THEN rq.new_status ELSE @]

\* crud/job.py update_job up to the assign_ip call of line 269 when there is
\* one, else up to db.commit()
update_job(s, rq) ==
    LET a == rq.admin_id
        old == s.job.assigned_ip_id
        un == Reassigns(s, rq) /\ old # NoIp
        resp == unassign_ip(s, old, a, is_superadmin(a))
        t == IF un THEN Unassigned(s, old) ELSE s
        lock == IF un /\ Seen(s, old) THEN old ELSE 0
    IN
    IF ~jobs[rq.job_id].exists THEN NotFoundJob(s)
    ELSE IF un /\ resp.kind # "ok" THEN Out(resp, s, 0, "done")
    ELSE IF Reassigns(s, rq) /\ rq.new_ip # NoIp THEN Out(Ok, t, lock, "assign")
    ELSE Out(Ok, Patched(t, rq), lock, "commit")

\* crud/job.py update_job from the assign_ip call of line 269 up to db.commit()
update_job_assign(s, rq, cj) ==
    LET a == rq.admin_id
        new == rq.new_ip
        resp == assign_ip(s, new, a, is_superadmin(a), cj)
        lock == IF new \in IpIds THEN new ELSE 0
    IN
    IF resp.kind # "ok" THEN Out(resp, s, lock, "done")
    ELSE Out(Ok, Patched(Assigned(s, new), rq), lock, "commit")

\* The crud function a route calls, up to its first wait for a row lock that
\* follows a flush.
Crud(s, rq, cj) ==
    CASE rq.op = "start" -> start_job(s, rq, cj)
      [] rq.op = "pause" -> pause_job(s, rq)
      [] rq.op = "finish" -> finish_job(s, rq)
      [] rq.op = "delete" -> delete_job(s, rq)
      [] rq.op = "update" -> update_job(s, rq)

\* The crud function a route calls, up to db.commit().
CrudAll(s, rq, cj) ==
    LET o == Crud(s, rq, cj) IN
    IF o.resp.kind = "ok" /\ o.next = "assign" THEN update_job_assign(o.s, rq, cj) ELSE o

\* The ip_user row whose in_progress job assign_ip looks up for its message.
TargetIp(s, rq) == IF rq.op = "update" THEN rq.new_ip ELSE s.job.assigned_ip_id

\* ------------------------------------------------------ end of a request
\* The request fails: HTTPException or, in the except branch, db.rollback()
\* and HTTPException.  What assign_ip / unassign_ip committed themselves
\* (commit=True) stays.
Fail(r, resp, s) ==
    /\ pc' = [pc EXCEPT ![r] = "done"]
    /\ session' = [session EXCEPT ![r] = NoSession]
    /\ row_lock' = Release(r)
    /\ result' = [result EXCEPT ![r] = resp]
    /\ is_assigned' = FlagsAfter(s, LifecycleCommitArg)
    /\ req' = [req EXCEPT ![r] = NoReq]
    /\ UNCHANGED <<jobs, admin_assignments, job_status_logs, log_created_at, jobs_checklists,
                   jobs_checklist_item_status, next_job_id, sent_otps, now>>

\* delete_job leaving the rows of jobs_checklists.
ChecklistsKept(s, j) == jobs_checklists

\* crud/job.py delete_job, line 353 and the cascade of Job.job_checklists:
\* the rows of jobs_checklists of a deleted job are deleted with it.
ChecklistsAfter(s, j) ==
    IF s.deleted THEN [jobs_checklists EXCEPT ![j] = {}] ELSE jobs_checklists

\* The commit replacing the rows of the job by the row it adds.
LogsAfter_LatestOnly(s, j) ==
    [job_status_logs EXCEPT ![j] =
        IF s.deleted THEN <<>> ELSE IF s.log # <<>> THEN s.log ELSE @]

\* crud/job.py: the JobStatusLog a crud function added with db.add is
\* inserted at its db.commit() (lines 385-393, 420-428, 455-463); delete_job
\* deletes the rows of the job (line 354).  No row is updated.
LogsAfter(s, j) ==
    [job_status_logs EXCEPT ![j] = IF s.deleted THEN <<>> ELSE @ \o s.log]

\* crud/job.py lines 389, 424, 459: created_at=datetime.utcnow() is evaluated
\* when the JobStatusLog is built, before db.commit() inserts the row.
CreatedAtAfter(s, j) ==
    [log_created_at EXCEPT ![j] =
        IF s.deleted THEN <<>> ELSE IF s.log # <<>> THEN Append(@, s.log_at) ELSE @]

\* model/job.py Job.job_checklist_item_statuses, cascade "all, delete-orphan":
\* db.delete(db_job) deletes the status rows of the job.
StatusRowsAfter(s, j) ==
    IF s.deleted
    THEN SelectSeq(jobs_checklist_item_status, LAMBDA row : row.job_id # j)
    ELSE jobs_checklist_item_status

\* db.commit() of the crud function: the pending changes of the Job object are
\* flushed (an UPDATE of the attributes that differ from the loaded ones, the
\* INSERT of the added JobStatusLog, the DELETEs) and the transaction commits;
\* a statement that fails raises, and the except branch rolls back (500).
\* resp is what the request answers once the commit is done: the job, or 500
\* when the db.refresh(db_job) that follows db.commit() raises.
CommitOf(r, s, rq, resp) ==
    LET j == rq.job_id
        statusCh == s.job.status # s.loaded.status
        ipCh == s.job.assigned_ip_id # s.loaded.assigned_ip_id
        writes == statusCh \/ ipCh \/ s.log # <<>>
    IN
    IF ~s.deleted /\ writes /\ ~jobs[j].exists
    THEN Fail(r, Response(500, "StorageError", "none", 0), s)
    ELSE IF ~s.deleted /\ ipCh /\ s.job.assigned_ip_id \notin IpIds \cup {NoIp}
    THEN Fail(r, Response(500, "StorageError", "none", 0), s)
    ELSE /\ jobs' = [jobs EXCEPT ![j] =
               IF s.deleted THEN NoJob
               ELSE [@ EXCEPT !.status = IF statusCh THEN s.job.status ELSE @,
                              !.assigned_ip_id = IF ipCh THEN s.job.assigned_ip_id ELSE @]]
         /\ job_status_logs' = LogsAfter(s, j)
         /\ log_created_at' = CreatedAtAfter(s, j)
         /\ jobs_checklists' = ChecklistsAfter(s, j)
         /\ jobs_checklist_item_status' = StatusRowsAfter(s, j)
         /\ is_assigned' = [p \in IpIds |->
               IF p \in s.ip_flushed THEN s.ip_val[p] ELSE is_assigned[p]]
         /\ pc' = [pc EXCEPT ![r] = "done"]
         /\ session' = [session EXCEPT ![r] = NoSession]
         /\ row_lock' = Release(r)
         /\ result' = [result EXCEPT ![r] = resp]
         /\ req' = [req EXCEPT ![r] = NoReq]
         /\ UNCHANGED <<admin_assignments, next_job_id, sent_otps, now>>

\* The response is sent; get_db closes the session.
Respond(r) ==
    /\ pc[r] = "done"
    /\ pc' = [pc EXCEPT ![r] = "idle"]
    /\ result' = [result EXCEPT ![r] = NoResponse]
    /\ req' = [req EXCEPT ![r] = NoReq]
    /\ session' = [session EXCEPT ![r] = NoSession]
    /\ UNCHANGED <<db, sent_otps, now, row_lock>>

\* ------------------------------------------------- requests in one step
\* routes/job.py create_new_job + crud/job.py create_job
create_job(a, p, phone, checklist_ids) ==
    /\ next_job_id \in JobIds
    /\ LogRoom
    /\ IF p # NoIp /\ p \notin IpIds THEN UNCHANGED db                     \* 404
       ELSE IF p # NoIp /\ is_assigned[p] THEN UNCHANGED db                \* 400
       ELSE IF p # NoIp /\ ~is_superadmin(a) /\ ~is_admin_allowed_for_ip(p, a)
            THEN UNCHANGED db                                              \* 403
       ELSE /\ jobs' = [jobs EXCEPT ![next_job_id] = Job("created", p, phone)]
            /\ job_status_logs' = [job_status_logs EXCEPT ![next_job_id] = <<"created">>]
            /\ log_created_at' = [log_created_at EXCEPT ![next_job_id] = <<now>>]
            /\ jobs_checklists' = [jobs_checklists EXCEPT ![next_job_id] = checklist_ids]
            /\ next_job_id' = next_job_id + 1
            /\ UNCHANGED <<is_assigned, admin_assignments, jobs_checklist_item_status>>
    /\ UNCHANGED <<sent_otps, now, pc, req, session, row_lock, result>>

\* api/v1/jobs.py complete_job: the partner marks a job bound to it completed.
complete_job(p, j) ==
    /\ jobs[j].exists /\ jobs[j].assigned_ip_id = p
    /\ jobs' = [jobs EXCEPT ![j].status = "completed"]
    /\ UNCHANGED <<is_assigned, admin_assignments, job_status_logs, log_created_at, jobs_checklists,
                   jobs_checklist_item_status, next_job_id,
                   sent_otps, now, pc, req, session, row_lock, result>>

\* routes/approval.py assign_admins_to_ip: a superadmin replaces the admins of an ip.
assign_admins_to_ip(a, p, admins) ==
    /\ is_superadmin(a)
    /\ admin_assignments' = {x \in admin_assignments : x[2] # p} \cup {<<b, p>> : b \in admins}
    /\ UNCHANGED <<jobs, is_assigned, job_status_logs, log_created_at, jobs_checklists,
                   jobs_checklist_item_status, next_job_id,
                   sent_otps, now, pc, req, session, row_lock, result>>

\* --------------------------------------------------- customer codes
\* An attribute assigned on a Job instance reaches the row at db.commit()
\* only when it is a mapped column of Job; otherwise it is an attribute of
\* that Python object alone, gone with the session of the request.
Stored(attr, value, old) == IF attr \in JobColumns THEN value ELSE old

\* pwd_context.hash(str(otp)); pwd_context.verify(otp, h) tells Hash(otp) = h.
Hash(otp) == otp + 10

\* customer_otp_service.py generate_and_store_start_otp, lines 35-38: the
\* row of the job once the function has committed.
generate_and_store_start_otp(job, otp) ==
    [job EXCEPT !.start_otp = Stored("start_otp", Hash(otp), @),
                !.start_otp_expiry = Stored("start_otp_expiry", now + OTP_EXPIRY_MINUTES, @),
                !.start_otp_verified = FALSE]

\* customer_otp_service.py generate_and_store_end_otp, lines 87-90
generate_and_store_end_otp(job, otp) ==
    [job EXCEPT !.end_otp = Stored("end_otp", Hash(otp), @),
                !.end_otp_expiry = Stored("end_otp_expiry", now + OTP_EXPIRY_MINUTES, @),
                !.end_otp_verified = FALSE]

\* schemas OTPResponse(success=sms_sent): send_customer_sms returns False
\* when the request to the SMS gateway fails.
OTPResponse(sms_sent) ==
    Response(200, IF sms_sent THEN "OtpSent" ELSE "OtpNotSent", "none", 0)

PhoneNotSet == Response(400, "PhoneNotSet", "none", 0)

\* Number of codes generated so far; a request that would generate one more
\* than MaxIssues is not explored.
RECURSIVE IssuedCodes(_)
IssuedCodes(S) == IF S = {} THEN 0
                  ELSE LET j == CHOOSE x \in S : TRUE
                       IN Len(sent_otps[j].job_start) + Len(sent_otps[j].job_end)
                          + IssuedCodes(S \ {j})
IssueRoom == IssuedCodes(JobIds) < MaxIssues

\* The request has generated and stored a code for job j and answers.
OtpIssued(r, j, row, issued, sms_sent) ==
    /\ jobs' = [jobs EXCEPT ![j] = row]
    /\ sent_otps' = [sent_otps EXCEPT ![j] = issued]
    /\ pc' = [pc EXCEPT ![r] = "done"]
    /\ result' = [result EXCEPT ![r] = OTPResponse(sms_sent)]
    /\ UNCHANGED <<is_assigned, admin_assignments, job_status_logs, log_created_at, jobs_checklists,
                   jobs_checklist_item_status, next_job_id, now, req, session, row_lock>>

\* routes/job.py request_start_otp with send_start_otp: the code is generated
\* and stored, then handed to the SMS gateway.
request_start_otp(r, j, otp, sms_sent) ==
    /\ pc[r] = "idle"
    /\ IssueRoom
    /\ IF ~jobs[j].exists THEN Fail(r, Response(404, "NotFound", "none", 0), NoSession)
       ELSE IF ~jobs[j].customer_phone THEN Fail(r, PhoneNotSet, NoSession)
       ELSE OtpIssued(r, j, generate_and_store_start_otp(jobs[j], otp),
                      [sent_otps[j] EXCEPT !.job_start = Append(@, otp),
                                           !.job_start_expiry = now + OTP_EXPIRY_MINUTES],
                      sms_sent)

\* routes/job.py request_end_otp with send_end_otp
request_end_otp(r, j, otp, sms_sent) ==
    /\ pc[r] = "idle"
    /\ IssueRoom
    /\ IF ~jobs[j].exists THEN Fail(r, Response(404, "NotFound", "none", 0), NoSession)
       ELSE IF ~jobs[j].customer_phone THEN Fail(r, PhoneNotSet, NoSession)
       ELSE OtpIssued(r, j, generate_and_store_end_otp(jobs[j], otp),
                      [sent_otps[j] EXCEPT !.job_end = Append(@, otp),
                                           !.job_end_expiry = now + OTP_EXPIRY_MINUTES],
                      sms_sent)

\* verify_start_otp accepting the code generated last, every time it is given.
verify_start_otp_Reusable(j, otp) ==
    IF ~jobs[j].exists \/ sent_otps[j].job_start = <<>> THEN "false"
    ELSE IF otp = sent_otps[j].job_start[Len(sent_otps[j].job_start)] THEN "true"
    ELSE "false"

\* customer_otp_service.py verify_start_otp on the Job instance a later
\* request loads: reading job.start_otp of an instance that has no such
\* attribute raises AttributeError; "expired" is the return of False of line
\* 60, after the commit of line 59.
verify_start_otp(j, otp) ==
    LET job == jobs[j] IN
    IF ~job.exists THEN "false"
    ELSE IF "start_otp" \notin JobColumns THEN "AttributeError"
    ELSE IF job.start_otp = NoOtp THEN "false"
    ELSE IF "start_otp_expiry" \notin JobColumns THEN "AttributeError"
    ELSE IF job.start_otp_expiry < now THEN "expired"
    ELSE IF Hash(otp) # job.start_otp THEN "false"
    ELSE "true"

\* customer_otp_service.py verify_end_otp
verify_end_otp(j, otp) ==
    LET job == jobs[j] IN
    IF ~job.exists THEN "false"
    ELSE IF "end_otp" \notin JobColumns THEN "AttributeError"
    ELSE IF job.end_otp = NoOtp THEN "false"
    ELSE IF "end_otp_expiry" \notin JobColumns THEN "AttributeError"
    ELSE IF job.end_otp_expiry < now THEN "expired"
    ELSE IF Hash(otp) # job.end_otp THEN "false"
    ELSE "true"

\* The row verify_start_otp commits: lines 57-59 when the code has expired,
\* lines 67-70 when it matches.
verified_start(job, outcome) ==
    CASE outcome = "expired" -> [job EXCEPT !.start_otp = NoOtp, !.start_otp_expiry = NoOtp]
      [] outcome = "true" -> [job EXCEPT !.start_otp = NoOtp, !.start_otp_expiry = NoOtp,
                                         !.start_otp_verified = TRUE]
      [] OTHER -> job

\* The row verify_end_otp commits: lines 109-111 and 119-122.
verified_end(job, outcome) ==
    CASE outcome = "expired" -> [job EXCEPT !.end_otp = NoOtp, !.end_otp_expiry = NoOtp]
      [] outcome = "true" -> [job EXCEPT !.end_otp = NoOtp, !.end_otp_expiry = NoOtp,
                                         !.end_otp_verified = TRUE]
      [] OTHER -> job

\* ------------------------------------------------------- route handlers
\* crud/job.py get_job_by_id as called first by every route: the Job and its
\* joined assigned_ip enter the identity map of the request's session.
LoadedRow(row) ==
    [NoSession EXCEPT !.job = row, !.loaded = row,
        !.ip_seen = IF row.assigned_ip_id \in IpIds THEN {row.assigned_ip_id} ELSE {},
        !.ip_val = [p \in IpIds |-> p = row.assigned_ip_id /\ is_assigned[p]]]

Loaded(j) == LoadedRow(jobs[j])

\* The route has loaded the job; other requests run before its crud call.
Load(r, rq) ==
    /\ pc' = [pc EXCEPT ![r] = "run"]
    /\ req' = [req EXCEPT ![r] = rq]
    /\ session' = [session EXCEPT ![r] = Loaded(rq.job_id)]
    /\ result' = [result EXCEPT ![r] = NoResponse]
    /\ UNCHANGED <<db, sent_otps, now, row_lock>>

\* The except branches of crud/job.py answer an exception of the database
\* with 500 "Error ... job".
StorageFailure == Response(500, "StorageError", "none", 0)

\* The crud functions that call db.refresh(db_job) after db.commit(), inside
\* the try block (start_job, pause_job, finish_job, update_job).
Refreshing == {"start", "pause", "finish", "update"}

\* The whole request in one step: crud function, then db.commit() or a
\* failure of the database at one of its statements.
Serve(r, rq) ==
    \E s \in {Loaded(rq.job_id)} :
       \E cj \in ActiveJobChoice(TargetIp(s, rq)) :
          \E o \in {CrudAll(s, rq, cj)} :
             IF o.resp.kind # "ok" THEN Fail(r, o.resp, o.s)
             ELSE \/ CommitOf(r, o.s, rq, Ok)
                  \/ Fail(r, StorageFailure, o.s)
                  \/ rq.op \in Refreshing /\ CommitOf(r, o.s, rq, StorageFailure)

\* A route calls get_job_by_id and then the crud function.  With split the
\* two are separate steps, so that other requests interleave between them
\* and between the later steps; without, the request is served in one step.
Call(r, rq, split) == IF split THEN Load(r, rq) ELSE Serve(r, rq)

Request(op, j, a) == [NoReq EXCEPT !.op = op, !.job_id = j, !.admin_id = a]

\* A route up to its crud call: gate is what the route answers before it
\* (Ok: it goes on to the crud function).
Route(r, gate, rq, split) ==
    /\ pc[r] = "idle"
    /\ IF gate.kind # "ok" THEN Fail(r, gate, NoSession) ELSE Call(r, rq, split)

\* get_job_by_id raises 404 for a job that does not exist.
JobGate(j) == IF ~jobs[j].exists THEN Response(404, "NotFound", "none", 0) ELSE Ok

\* routes/job.py start_existing_job and finish_existing_job, before the crud
\* call: a job whose customer has a phone must take the OTP endpoints.
LegacyGate(j) ==
    IF ~jobs[j].exists THEN Response(404, "NotFound", "none", 0)
    ELSE IF jobs[j].customer_phone THEN Response(400, "OtpRequired", "none", 0)
    ELSE Ok

\* routes/job.py verify_start_otp_and_start, before the crud call: what the
\* route answers for the code otp; the AttributeError of verify_start_otp is
\* not caught and answers 500.
VerifyStartGate(j, otp) ==
    IF ~jobs[j].exists THEN Response(404, "NotFound", "none", 0)
    ELSE IF jobs[j].customer_phone /\ verify_start_otp(j, otp) = "AttributeError"
         THEN Response(500, "AttributeError", "none", 0)
    ELSE IF jobs[j].customer_phone /\ verify_start_otp(j, otp) \in {"false", "expired"}
         THEN Response(400, "InvalidOtp", "none", 0)
    ELSE Ok

\* routes/job.py verify_end_otp_and_finish, before the crud call
VerifyEndGate(j, otp) ==
    IF ~jobs[j].exists THEN Response(404, "NotFound", "none", 0)
    ELSE IF jobs[j].customer_phone /\ verify_end_otp(j, otp) = "AttributeError"
         THEN Response(500, "AttributeError", "none", 0)
    ELSE IF jobs[j].customer_phone /\ verify_end_otp(j, otp) \in {"false", "expired"}
         THEN Response(400, "InvalidOtp", "none", 0)
    ELSE Ok

\* verify_start_otp / verify_end_otp has committed the row of job j: for an
\* expired code the route answers 400; for a matching code it goes on to the
\* crud function with the Job of its session, in a transaction of its own.
VerifyCommitted(r, j, rq, row, outcome) ==
    /\ jobs' = [jobs EXCEPT ![j] = row]
    /\ IF outcome = "true"
       THEN /\ pc' = [pc EXCEPT ![r] = "run"]
            /\ req' = [req EXCEPT ![r] = rq]
            /\ session' = [session EXCEPT ![r] = LoadedRow(row)]
            /\ result' = [result EXCEPT ![r] = NoResponse]
       ELSE /\ pc' = [pc EXCEPT ![r] = "done"]
            /\ req' = [req EXCEPT ![r] = NoReq]
            /\ session' = [session EXCEPT ![r] = NoSession]
            /\ result' = [result EXCEPT ![r] = Response(400, "InvalidOtp", "none", 0)]
    /\ UNCHANGED <<is_assigned, admin_assignments, job_status_logs, log_created_at, jobs_checklists,
                   jobs_checklist_item_status, next_job_id, sent_otps, now, row_lock>>

\* routes/job.py start_existing_job
start_existing_job(r, j, a, split) ==
    LogRoom /\ Route(r, LegacyGate(j), Request("start", j, a), split)

\* routes/job.py verify_start_otp_and_start
verify_start_otp_and_start(r, j, a, otp, split) ==
    LET outcome == verify_start_otp(j, otp) IN
    /\ LogRoom
    /\ IF jobs[j].exists /\ jobs[j].customer_phone /\ outcome \in {"expired", "true"}
       THEN /\ pc[r] = "idle"
            /\ VerifyCommitted(r, j, Request("start", j, a), verified_start(jobs[j], outcome),
                               outcome)
       ELSE Route(r, VerifyStartGate(j, otp), Request("start", j, a), split)

\* routes/job.py pause_existing_job
pause_existing_job(r, j, a, split) ==
    LogRoom /\ Route(r, JobGate(j), Request("pause", j, a), split)

\* routes/job.py finish_existing_job
finish_existing_job(r, j, a, split) ==
    LogRoom /\ Route(r, LegacyGate(j), Request("finish", j, a), split)

\* routes/job.py verify_end_otp_and_finish
verify_end_otp_and_finish(r, j, a, otp, split) ==
    LET outcome == verify_end_otp(j, otp) IN
    /\ LogRoom
    /\ IF jobs[j].exists /\ jobs[j].customer_phone /\ outcome \in {"expired", "true"}
       THEN /\ pc[r] = "idle"
            /\ VerifyCommitted(r, j, Request("finish", j, a), verified_end(jobs[j], outcome),
                               outcome)
       ELSE Route(r, VerifyEndGate(j, otp), Request("finish", j, a), split)

\* routes/job.py delete_existing_job
delete_existing_job(r, j, a, split) ==
    Route(r, JobGate(j), Request("delete", j, a), split)

\* The request of an UpdateJob call; the patch carries assigned_ip_id when
\* ip.set and status when st.set (model_dump(exclude_unset=True)).
UpdateRequest(j, a, ip, st) ==
    [op |-> "update", job_id |-> j, admin_id |-> a,
     ip_set |-> ip.set, new_ip |-> ip.val,
     status_set |-> st.set, new_status |-> st.val]

\* routes/job.py update_existing_job
update_existing_job(r, j, a, ip, st, split) ==
    Route(r, JobGate(j), UpdateRequest(j, a, ip, st), split)

\* What a request answers when the database does not fail: the answer of the
\* route, or else that of the crud function it calls.
Answer(gate, rq, cj) ==
    IF gate.kind # "ok" THEN gate ELSE CrudAll(Loaded(rq.job_id), rq, cj).resp

\* ------------------------------------------- steps of a split request
\* The outcome o of a part of the crud function becomes the state of slot r.
Apply(r, o) ==
    /\ o.lock # 0 => CanLock(r, o.lock)
    /\ IF o.resp.kind # "ok" THEN Fail(r, o.resp, o.s)
       ELSE /\ pc' = [pc EXCEPT ![r] = o.next]
            /\ session' = [session EXCEPT ![r] =
                  IF LifecycleCommitArg THEN [o.s EXCEPT !.ip_flushed = {}] ELSE o.s]
            /\ is_assigned' = FlagsAfter(o.s, LifecycleCommitArg)
            /\ row_lock' = IF LifecycleCommitArg THEN Release(r)
                           ELSE IF o.lock # 0 THEN [row_lock EXCEPT ![o.lock] = r]
                           ELSE row_lock
            /\ UNCHANGED <<jobs, admin_assignments, job_status_logs, log_created_at, jobs_checklists,
                   jobs_checklist_item_status, next_job_id,
                           sent_otps, now, req, result>>

\* The crud call of a request whose route has loaded the job.
CrudStep(r) ==
    /\ pc[r] = "run"
    /\ \E cj \in ActiveJobChoice(TargetIp(session[r], req[r])) :
          \E o \in {Crud(session[r], req[r], cj)} : Apply(r, o)

\* update_job continues with assign_ip for the new partner.
AssignStep(r) ==
    /\ pc[r] = "assign"
    /\ \E cj \in ActiveJobChoice(req[r].new_ip) :
          \E o \in {update_job_assign(session[r], req[r], cj)} : Apply(r, o)

Commit(r) ==
    /\ pc[r] = "commit"
    /\ CommitOf(r, session[r], req[r], Ok)

\* db.commit() succeeds and the db.refresh(db_job) after it raises: the except
\* branch calls db.rollback(), which has nothing left to undo, and answers 500.
RefreshError(r) ==
    /\ pc[r] = "commit"
    /\ req[r].op \in Refreshing
    /\ CommitOf(r, session[r], req[r], StorageFailure)

\* A statement or the COMMIT fails in the database: the except branch of the
\* crud function calls db.rollback() and answers 500.
StorageError(r) ==
    /\ pc[r] \in {"assign", "commit"}
    /\ Fail(r, StorageFailure, session[r])

\* ------------------------------------------------------- specifications
\* schemas/job.py JobUpdate: every field is optional; the values a patch gives
\* assigned_ip_id (null, an ip, an id no ip has) and status, or leaves unset.
NoIpPatch == [set |-> FALSE, val |-> NoIp]
NoStatusPatch == [set |-> FALSE, val |-> "none"]
IpPatches == {NoIpPatch} \cup {[set |-> TRUE, val |-> p] : p \in IpIds \cup {NoIp, MissingIp}}
StatusPatches == {NoStatusPatch} \cup {[set |-> TRUE, val |-> st] : st \in Statuses}

\* The patches explored: those that set at most one of the two fields.
Patches == {x \in IpPatches \X StatusPatches : ~(x[1].set /\ x[2].set)}

\* Spec: the administrators' and the partners' requests, served one at a
\* time, on jobs created without checklists; the requests that send a code to
\* the customer are those of SpecOtp.
Next ==
    \/ \E a \in AdminIds, p \in IpIds \cup {NoIp}, phone \in BOOLEAN :
          AllIdle /\ create_job(a, p, phone, {})
    \/ \E j \in JobIds, a \in AdminIds, otp \in Otps :
          verify_start_otp_and_start(1, j, a, otp, FALSE)
    \/ \E j \in JobIds, a \in AdminIds, otp \in Otps :
          verify_end_otp_and_finish(1, j, a, otp, FALSE)
    \/ \E p \in IpIds, j \in JobIds : AllIdle /\ complete_job(p, j)
    \/ \E j \in JobIds, a \in AdminIds : start_existing_job(1, j, a, FALSE)
    \/ \E j \in JobIds, a \in AdminIds : pause_existing_job(1, j, a, FALSE)
    \/ \E j \in JobIds, a \in AdminIds : finish_existing_job(1, j, a, FALSE)
    \/ \E j \in JobIds, a \in AdminIds : delete_existing_job(1, j, a, FALSE)
    \/ \E j \in JobIds, a \in AdminIds, x \in Patches :
          update_existing_job(1, j, a, x[1], x[2], FALSE)
    \/ Respond(1)

Spec == Init /\ [][Next]_vars

\* SpecSteps: the requests served one at a time, each in its steps (the
\* route's load, the crud function up to a flush, db.commit(), the response),
\* while a superadmin changes the admins of the ips between requests.
StepsNext ==
    \/ \E a \in AdminIds, p \in IpIds \cup {NoIp}, cl \in SUBSET ChecklistIds :
          AllIdle /\ create_job(a, p, FALSE, cl)
    \/ \E p \in IpIds, j \in JobIds : AllIdle /\ complete_job(p, j)
    \/ \E a \in AdminIds, p \in IpIds, admins \in SUBSET (AdminIds \ SuperAdmins) :
          AllIdle /\ assign_admins_to_ip(a, p, admins)
    \/ \E j \in JobIds, a \in AdminIds : start_existing_job(1, j, a, TRUE)
    \/ \E j \in JobIds, a \in AdminIds : pause_existing_job(1, j, a, TRUE)
    \/ \E j \in JobIds, a \in AdminIds : finish_existing_job(1, j, a, TRUE)
    \/ \E j \in JobIds, a \in AdminIds : delete_existing_job(1, j, a, TRUE)
    \/ \E j \in JobIds, a \in AdminIds, ip \in IpPatches :
          update_existing_job(1, j, a, ip, NoStatusPatch, TRUE)
    \/ CrudStep(1)
    \/ AssignStep(1)
    \/ Commit(1)
    \/ RefreshError(1)
    \/ StorageError(1)
    \/ Respond(1)

SpecSteps == Init /\ [][StepsNext]_vars

\* SpecRace: two jobs, each created or paused, bound to the same partner, who
\* is not assigned; the administrators, both allowed for the partner, start
\* them in concurrent requests.
RaceInit ==
    /\ \E p \in IpIds, st1 \in {"created", "paused"}, st2 \in {"created", "paused"} :
          jobs = [j \in JobIds |-> Job(IF j = 1 THEN st1 ELSE st2, p, FALSE)]
    /\ is_assigned = [p \in IpIds |-> FALSE]
    /\ admin_assignments = {<<a, p>> : a \in AdminIds \ SuperAdmins, p \in IpIds}
    /\ job_status_logs = [j \in JobIds |-> <<"created">>]
    /\ log_created_at = [j \in JobIds |-> [i \in 1..Len(job_status_logs[j]) |-> 0]]
    /\ jobs_checklists = [j \in JobIds |-> {}]
    /\ jobs_checklist_item_status = <<>>
    /\ next_job_id = 3
    /\ sent_otps = [j \in JobIds |-> NoOtps]
    /\ now = 0
    /\ pc = [r \in Slots |-> "idle"]
    /\ req = [r \in Slots |-> NoReq]
    /\ session = [r \in Slots |-> NoSession]
    /\ row_lock = [p \in IpIds |-> 0]
    /\ result = [r \in Slots |-> NoResponse]

RaceNext ==
    \E r \in Slots :
       \/ \E j \in JobIds, a \in AdminIds : start_existing_job(r, j, a, TRUE)
       \/ CrudStep(r)
       \/ Commit(r)
       \/ RefreshError(r)
       \/ StorageError(r)
       \/ Respond(r)

SpecRace == RaceInit /\ [][RaceNext]_vars

\* ---------------------------------------------------------------- claims
\* What the claims speak of.
LifecycleState == <<jobs, is_assigned, job_status_logs>>

\* Slot r receives the answer of a request in this step.
Answered(r) == pc[r] # "done" /\ pc'[r] = "done"

\* C1: in every state reached by the administrators' calls, each partner is
\* the partner of at most one job whose status is in_progress.
C1_AtMostOneActiveJob == \A p \in IpIds : Cardinality(ActiveJobs(p)) <= 1

\* C2: in every reachable state a partner's is_assigned flag is true exactly
\* when some in_progress job has that partner.
C2_FlagIffActiveJob == \A p \in IpIds : is_assigned[p] <=> ActiveJobs(p) # {}

\* C3: of two concurrent StartJob calls on the two jobs bound to the same
\* unassigned partner at most one is committed (the other fails), and the
\* two jobs are never both in_progress.
C3_OneStartWins ==
    /\ ~(jobs[1].status = "in_progress" /\ jobs[2].status = "in_progress")
    /\ Cardinality({j \in JobIds : Len(job_status_logs[j]) > 1}) <= 1

\* A step of Spec that serves a lifecycle action: start, pause, finish,
\* delete, or an update that reassigns the partner of an in_progress job.
LifecycleStep ==
    \E j \in JobIds, a \in AdminIds :
       \/ start_existing_job(1, j, a, FALSE)
       \/ \E otp \in Otps : verify_start_otp_and_start(1, j, a, otp, FALSE)
       \/ pause_existing_job(1, j, a, FALSE)
       \/ finish_existing_job(1, j, a, FALSE)
       \/ \E otp \in Otps : verify_end_otp_and_finish(1, j, a, otp, FALSE)
       \/ delete_existing_job(1, j, a, FALSE)
       \/ \E x \in Patches :
             /\ Reassigns(Loaded(j), UpdateRequest(j, a, x[1], x[2]))
             /\ update_existing_job(1, j, a, x[1], x[2], FALSE)

\* C4: a lifecycle action that fails, at whatever step, leaves the status of
\* the jobs, the is_assigned flags and the audit log as they were.
C4_AllOrNothing ==
    [][(Answered(1) /\ result'[1].code >= 400 /\ LifecycleState' # LifecycleState)
          => ~LifecycleStep]_vars

\* C5: every change of a job's status appends exactly one audit entry, whose
\* status is the job's new status.
C5_StatusChangeLogged ==
    [][\A j \in JobIds :
          (jobs[j].exists /\ jobs'[j].exists /\ jobs'[j].status # jobs[j].status)
             => job_status_logs'[j] = Append(job_status_logs[j], jobs'[j].status)]_vars

\* C6: a job with a customer phone is in_progress only with its job_start
\* code verified.
C6_StartVerified ==
    \A j \in JobIds :
       (jobs[j].exists /\ jobs[j].customer_phone /\ jobs[j].status = "in_progress")
          => jobs[j].start_otp_verified

\* C7: a job with a customer phone is completed only with its job_end code
\* verified.
C7_FinishVerified ==
    \A j \in JobIds :
       (jobs[j].exists /\ jobs[j].customer_phone /\ jobs[j].status = "completed")
          => jobs[j].end_otp_verified

\* Admin a may assign and unassign partner p.
MayMove(a, p) == is_superadmin(a) \/ is_admin_allowed_for_ip(p, a)

\* C8: whenever a request writes the is_assigned flag of a partner for a
\* non-superadmin, that administrator has an AdminAuthorization row for the
\* partner at that moment; the committed flag changes only by the commit of
\* such a write, the row still being there.
C8_FlagWriteAuthorized ==
    [][\A p \in IpIds :
          /\ \A r \in Slots :
                (p \in session'[r].ip_flushed /\ p \notin session[r].ip_flushed)
                   => MayMove(req[r].admin_id, p)
          /\ is_assigned'[p] # is_assigned[p]
                => \E r \in Slots :
                      /\ pc[r] = "commit" /\ p \in session[r].ip_flushed
                      /\ is_assigned'[p] = session[r].ip_val[p]
                      /\ MayMove(req[r].admin_id, p)]_vars

\* The request of a non-superadmin has written the flag of a partner and is
\* about to commit.
C8_Witness ==
    \E p \in IpIds :
       /\ p \in session[1].ip_flushed
       /\ ~is_superadmin(req[1].admin_id)
       /\ pc[1] = "commit"

\* The answers of the lifecycle requests of admin a on job j.
StartAnswers(j, a) ==
    {Answer(g, Request("start", j, a), cj) :
        g \in {LegacyGate(j)} \cup {VerifyStartGate(j, otp) : otp \in Otps},
        cj \in ActiveJobChoice(jobs[j].assigned_ip_id)}
PauseAnswers(j, a) == {Answer(JobGate(j), Request("pause", j, a), 0)}
FinishAnswers(j, a) ==
    {Answer(g, Request("finish", j, a), 0) :
        g \in {LegacyGate(j)} \cup {VerifyEndGate(j, otp) : otp \in Otps}}
DeleteAnswers(j, a) == {Answer(JobGate(j), Request("delete", j, a), 0)}

\* The answers of the updates of admin a that give the in_progress job j the
\* partner new, other than its own.
ReassignAnswers(j, a, new) ==
    IF jobs[j].status = "in_progress" /\ new # jobs[j].assigned_ip_id
    THEN {Answer(JobGate(j), UpdateRequest(j, a, [set |-> TRUE, val |-> new], st), cj) :
             st \in StatusPatches, cj \in ActiveJobChoice(new)}
    ELSE {}

\* Admin a is no superadmin and has no AdminAuthorization for partner p.
Unauthorized(a, p) == p \in IpIds /\ ~MayMove(a, p)

\* C9 as stated: a lifecycle action or reassignment of an administrator who is
\* not authorized for the partner involved is answered Forbidden.
C9_UnauthorizedForbidden ==
    \A j \in JobIds, a \in AdminIds :
       jobs[j].exists =>
          /\ Unauthorized(a, jobs[j].assigned_ip_id) =>
                \A x \in StartAnswers(j, a) \cup PauseAnswers(j, a) \cup FinishAnswers(j, a)
                         \cup DeleteAnswers(j, a)
                         \cup UNION {ReassignAnswers(j, a, new) : new \in IpIds \cup {NoIp}} :
                   x.kind = "Forbidden"
          /\ \A new \in IpIds : Unauthorized(a, new) =>
                \A x \in ReassignAnswers(j, a, new) : x.kind = "Forbidden"

\* The failures a request is answered with before it wrote anything.
Refusals == {"NotFound", "Conflict", "Forbidden", "InvalidTransition", "ValidationError",
             "OtpRequired", "InvalidOtp", "AttributeError"}

\* The status of job j is a valid source of the action.
ValidSource(op, j) ==
    CASE op = "start" -> jobs[j].status \in {"created", "paused"}
      [] op \in {"pause", "finish"} -> jobs[j].status = "in_progress"
      [] op = "delete" -> TRUE

\* What C9 says of the answers, as the code has it: the request fails, with
\* Forbidden unless an earlier check refuses it (the source status, the OTP
\* gate of a job with a customer phone, the partner to assign being assigned).
C9_Answers ==
    \A j \in JobIds, a \in AdminIds :
       jobs[j].exists =>
          LET p == jobs[j].assigned_ip_id
              phone == jobs[j].customer_phone
          IN
          /\ Unauthorized(a, p) =>
                /\ \A x \in StartAnswers(j, a) :
                      /\ x.kind \in Refusals
                      /\ (ValidSource("start", j) /\ ~phone /\ ~is_assigned[p])
                            => x.kind = "Forbidden"
                /\ \A x \in PauseAnswers(j, a) :
                      /\ x.kind \in Refusals
                      /\ ValidSource("pause", j) => x.kind = "Forbidden"
                /\ \A x \in FinishAnswers(j, a) :
                      /\ x.kind \in Refusals
                      /\ (ValidSource("finish", j) /\ ~phone) => x.kind = "Forbidden"
                /\ \A x \in DeleteAnswers(j, a) : x.kind = "Forbidden"
                /\ \A new \in IpIds \cup {NoIp} :
                      \A x \in ReassignAnswers(j, a, new) : x.kind = "Forbidden"
          /\ \A new \in IpIds : Unauthorized(a, new) =>
                \A x \in ReassignAnswers(j, a, new) :
                   /\ x.kind \in Refusals
                   /\ ((p = NoIp \/ MayMove(a, p)) /\ ~is_assigned[new])
                         => x.kind = "Forbidden"

\* C9, amended: a lifecycle action or reassignment of an administrator not
\* authorized for the partner involved always fails and leaves the jobs, the
\* flags and the audit log unchanged; it fails with Forbidden when no earlier
\* check refuses it.
C9_UnauthorizedRefused ==
    /\ []C9_Answers
    /\ [][(Answered(1) /\ result'[1].kind \in Refusals) => UNCHANGED LifecycleState]_vars

\* An unauthorized administrator's request was answered Forbidden.
C9_Witness == pc[1] = "done" /\ result[1].kind = "Forbidden"

InvalidTransition(j) == Response(400, "InvalidTransition", jobs[j].status, 0)

\* C10 as stated: a lifecycle action from a status that is no valid source of
\* it is answered InvalidTransition with the job's current status.
C10_InvalidTransition ==
    \A j \in JobIds, a \in AdminIds :
       jobs[j].exists =>
          /\ ~ValidSource("start", j) =>
                \A x \in StartAnswers(j, a) : x = InvalidTransition(j)
          /\ ~ValidSource("pause", j) =>
                \A x \in PauseAnswers(j, a) \cup FinishAnswers(j, a) : x = InvalidTransition(j)

\* What C10 says of the answers, as the code has it: InvalidTransition with
\* the current status, except that start and finish of a job with a customer
\* phone are refused before the status is looked at.
C10_Answers ==
    \A j \in JobIds, a \in AdminIds :
       jobs[j].exists =>
          LET gated ==
                 IF jobs[j].customer_phone
                 THEN {Response(400, "OtpRequired", "none", 0),
                       Response(500, "AttributeError", "none", 0)}
                 ELSE {InvalidTransition(j)}
          IN
          /\ ~ValidSource("start", j) =>
                StartAnswers(j, a) = gated
          /\ ~ValidSource("pause", j) =>
                /\ PauseAnswers(j, a) = {InvalidTransition(j)}
                /\ FinishAnswers(j, a) = gated

\* C10, amended: a lifecycle action from a status that is no valid source of
\* it fails and changes neither job, partner nor audit log; the failure is
\* InvalidTransition with the current status, or, for start and finish of a
\* job with a customer phone, the refusal of the OTP gate.
C10_InvalidSourceRefused ==
    /\ []C10_Answers
    /\ [][(Answered(1) /\ result'[1].kind \in {"InvalidTransition", "OtpRequired", "AttributeError"})
             => UNCHANGED LifecycleState]_vars

\* A request was answered InvalidTransition with the status the job has.
C10_Witness ==
    /\ pc[1] = "done" /\ result[1].kind = "InvalidTransition"
    /\ \E j \in JobIds : jobs[j].exists /\ jobs[j].status = result[1].status

\* C11: completed is terminal: a job whose status is completed keeps that
\* status for as long as it exists (only DeleteJob ends it).
C11_CompletedTerminal ==
    [][\A j \in JobIds :
          (jobs[j].exists /\ jobs[j].status = "completed" /\ jobs'[j].exists)
             => jobs'[j].status = "completed"]_vars

\* Job j is in created or paused and has no partner reference.
Partnerless(j) ==
    jobs[j].exists /\ jobs[j].status \in {"created", "paused"} /\ jobs[j].assigned_ip_id = NoIp

\* C12 as stated: StartJob on a job in created or paused that has no partner
\* reference is answered ValidationError.
C12_NoPartnerValidationError ==
    \A j \in JobIds, a \in AdminIds :
       Partnerless(j) => \A x \in StartAnswers(j, a) : x.kind = "ValidationError"

\* What C12 says of the answers, as the code has it: ValidationError, except
\* that the start of a job with a customer phone is refused by the OTP gate
\* of the route before start_job looks at the partner reference.
C12_Answers ==
    \A j \in JobIds, a \in AdminIds :
       Partnerless(j) =>
          StartAnswers(j, a) =
             IF jobs[j].customer_phone
             THEN {Response(400, "OtpRequired", "none", 0),
                   Response(500, "AttributeError", "none", 0)}
             ELSE {Response(400, "ValidationError", "none", 0)}

\* C12, amended: StartJob on a job in created or paused with no partner
\* reference fails and changes neither a job's status, nor a partner's flag,
\* nor the audit log; the failure is ValidationError for a job without a
\* customer phone, the refusal of the OTP gate for a job with one.
C12_NoPartnerRefused ==
    /\ []C12_Answers
    /\ [][(Answered(1) /\ result'[1].kind = "ValidationError")
             => UNCHANGED LifecycleState]_vars

\* A StartJob request was answered ValidationError while a job in created or
\* paused has no partner reference.
C12_Witness ==
    /\ pc[1] = "done" /\ result[1].kind = "ValidationError"
    /\ \E j \in JobIds : Partnerless(j) /\ ~jobs[j].customer_phone

\* C13: when partner p is the partner of the in_progress job j1 and the job
\* j2, in created or paused, references p too, StartJob(j2) is answered
\* Conflict naming j1 (stated for a job j2 without a customer phone, whose
\* start meets no OTP gate).
C13_ConflictNamesActiveJob ==
    \A j1 \in JobIds, j2 \in JobIds, a \in AdminIds :
       (/\ j1 # j2
        /\ jobs[j1].exists /\ jobs[j1].status = "in_progress"
        /\ jobs[j1].assigned_ip_id \in IpIds
        /\ jobs[j2].exists /\ jobs[j2].status \in {"created", "paused"}
        /\ jobs[j2].assigned_ip_id = jobs[j1].assigned_ip_id
        /\ ~jobs[j2].customer_phone)
          => \A x \in StartAnswers(j2, a) : x.kind = "Conflict" /\ x.conflict = j1

\* C14: resuming a paused job j (no customer phone) of partner p re-checks
\* exclusivity: while another in_progress job has p, StartJob(j) is answered
\* Conflict; when no in_progress job has p, the StartJob of an administrator
\* who may assign p succeeds.
C14_ResumeRechecks ==
    \A j \in JobIds, a \in AdminIds :
       (/\ jobs[j].exists /\ jobs[j].status = "paused"
        /\ jobs[j].assigned_ip_id \in IpIds /\ ~jobs[j].customer_phone)
          => LET p == jobs[j].assigned_ip_id IN
             /\ ActiveJobs(p) # {} => \A x \in StartAnswers(j, a) : x.kind = "Conflict"
             /\ (ActiveJobs(p) = {} /\ MayMove(a, p))
                   => \A x \in StartAnswers(j, a) : x.kind = "ok"

\* ------------------------------------------------ start, pause, start
MaxRoundLog == 4       \* audit entries a job of SpecRound gets at most

\* SpecRound: two created jobs without customer phone, each with a partner;
\* the administrators start and pause them, and nothing else is called.
RoundInit ==
    /\ \E p1 \in IpIds, p2 \in IpIds :
          jobs = [j \in JobIds |-> Job("created", IF j = 1 THEN p1 ELSE p2, FALSE)]
    /\ is_assigned = [p \in IpIds |-> FALSE]
    /\ admin_assignments \in SUBSET ((AdminIds \ SuperAdmins) \X IpIds)
    /\ job_status_logs = [j \in JobIds |-> <<"created">>]
    /\ log_created_at = [j \in JobIds |-> [i \in 1..Len(job_status_logs[j]) |-> 0]]
    /\ jobs_checklists = [j \in JobIds |-> {}]
    /\ jobs_checklist_item_status = <<>>
    /\ next_job_id = 3
    /\ sent_otps = [j \in JobIds |-> NoOtps]
    /\ now = 0
    /\ pc = [r \in Slots |-> "idle"]
    /\ req = [r \in Slots |-> NoReq]
    /\ session = [r \in Slots |-> NoSession]
    /\ row_lock = [p \in IpIds |-> 0]
    /\ result = [r \in Slots |-> NoResponse]

RoundNext ==
    \/ \E j \in JobIds, a \in AdminIds :
          /\ Len(job_status_logs[j]) < MaxRoundLog
          /\ Route(1, LegacyGate(j), Request("start", j, a), FALSE)
    \/ \E j \in JobIds, a \in AdminIds :
          /\ Len(job_status_logs[j]) < MaxRoundLog
          /\ Route(1, JobGate(j), Request("pause", j, a), FALSE)
    \/ Respond(1)

SpecRound == RoundInit /\ [][RoundNext]_vars

\* C15: under start and pause alone, the audit entries of a job after its
\* creation entry are in_progress, paused, in_progress, ... in that order,
\* the job's status is that of its last entry, and the partner of an
\* in_progress job is flagged assigned: start, pause, start leaves the job
\* in_progress, its partner assigned, and the three entries in order.
C15_StartPauseStart ==
    \A j \in JobIds :
       LET L == job_status_logs[j]
           p == jobs[j].assigned_ip_id
       IN
       /\ L[1] = "created"
       /\ \A i \in 2..Len(L) : L[i] = IF i % 2 = 0 THEN "in_progress" ELSE "paused"
       /\ jobs[j].status = L[Len(L)]
       /\ jobs[j].status = "in_progress" => is_assigned[p]
       /\ is_assigned[p] => ActiveJobs(p) # {}

\* A job was started, paused and started again.
C15_Witness ==
    \E j \in JobIds :
       /\ job_status_logs[j] = <<"created", "in_progress", "paused", "in_progress">>
       /\ jobs[j].status = "in_progress"
       /\ is_assigned[jobs[j].assigned_ip_id]

\* unassign_ip called twice in a session answers and leaves what one call does.
UnassignTwice ==
    \A r \in Slots, p \in IpIds, a \in AdminIds :
       LET s == session[r]
           once == Unassigned(s, p)
       IN
       /\ Unassigned(once, p) = once
       /\ unassign_ip(once, p, a, is_superadmin(a)) = unassign_ip(s, p, a, is_superadmin(a))
       /\ (~Seen(s, p) /\ MayMove(a, p))
             => /\ unassign_ip(s, p, a, is_superadmin(a)) = Ok
                /\ once.ip_flushed = s.ip_flushed
                /\ Seen(once, p) = Seen(s, p)

\* The request of slot 1 is about to call unassign_ip, as an administrator
\* who may, for the partner of its job, who is not assigned.
UnassignsFree ==
    /\ pc[1] = "run" /\ req[1].op \in {"pause", "finish", "delete"}
    /\ ValidSource(req[1].op, req[1].job_id)
    /\ session[1].job.assigned_ip_id \in IpIds
    /\ MayMove(req[1].admin_id, session[1].job.assigned_ip_id)
    /\ ~Seen(session[1], session[1].job.assigned_ip_id)

\* C16: unassign_ip on a partner whose is_assigned is already false succeeds
\* and changes neither the partner's row nor any other row; a second call
\* leaves what the first left.
C16_UnassignIdempotent ==
    /\ []UnassignTwice
    /\ [][UnassignsFree
             => /\ pc'[1] = "commit"
                /\ session'[1].ip_flushed = {}
                /\ UNCHANGED <<db, row_lock>>]_vars

\* unassign_ip has been called for a partner who was not assigned, in a
\* request that goes on to its commit.
C16_Witness ==
    /\ pc[1] = "commit" /\ req[1].op \in {"pause", "finish", "delete"}
    /\ session[1].job.assigned_ip_id \in IpIds
    /\ session[1].job.assigned_ip_id \in session[1].ip_seen
    /\ session[1].ip_flushed = {}
    /\ ~is_assigned[session[1].job.assigned_ip_id]

\* No row of job_status_logs or jobs_checklists refers to a job that does
\* not exist, and DeleteJob of an administrator who may unassign the job's
\* partner succeeds, whatever the job's status.
DeleteSucceeds ==
    \A j \in JobIds :
       /\ ~jobs[j].exists => job_status_logs[j] = <<>> /\ jobs_checklists[j] = {}
       /\ jobs[j].exists =>
             \A a \in AdminIds :
                (jobs[j].assigned_ip_id = NoIp \/ MayMove(a, jobs[j].assigned_ip_id))
                   => DeleteAnswers(j, a) = {Ok}

\* C17: DeleteJob succeeds from every status; once it is committed the job
\* does not exist, no audit entry and no checklist association of the job
\* remains, and the partner of a job that was in_progress is not assigned.
C17_DeleteRemoves ==
    /\ []DeleteSucceeds
    /\ [][(pc[1] = "commit" /\ req[1].op = "delete" /\ jobs' # jobs)
             => LET j == req[1].job_id
                    p == jobs[j].assigned_ip_id
                IN
                /\ ~jobs'[j].exists
                /\ job_status_logs'[j] = <<>>
                /\ jobs_checklists'[j] = {}
                /\ (jobs[j].status = "in_progress" /\ p \in IpIds) => ~is_assigned'[p]]_vars

\* A DeleteJob request succeeded and a job that was created exists no more.
C17_Witness ==
    /\ pc[1] = "done" /\ result[1].kind = "ok"
    /\ \E j \in JobIds : j < next_job_id /\ ~jobs[j].exists

\* The request of slot 1 is an UpdateJob that changes the partner of an
\* in_progress job from a partner A to another reference B.
Reassigning ==
    /\ pc[1] \in {"run", "assign", "commit"} /\ req[1].op = "update" /\ req[1].ip_set
    /\ jobs[req[1].job_id].status = "in_progress"
    /\ jobs[req[1].job_id].assigned_ip_id \in IpIds
    /\ req[1].new_ip \notin {NoIp, jobs[req[1].job_id].assigned_ip_id}

\* C18: an UpdateJob that changes the partner of an in_progress job from A
\* to B takes effect in one step or not at all: a step of it that changes a
\* job or a flag makes A unassigned, B assigned and the job reference B, all
\* three; a request refused (B not found, already assigned, administrator not
\* authorized) leaves A's flag and the job as they were.
C18_ReassignAtomic ==
    [][Reassigning =>
          LET j == req[1].job_id
              A == jobs[j].assigned_ip_id
              B == req[1].new_ip
          IN
          /\ (jobs' # jobs \/ is_assigned' # is_assigned) =>
                /\ B \in IpIds
                /\ is_assigned' = [is_assigned EXCEPT ![A] = FALSE, ![B] = TRUE]
                /\ jobs' = [jobs EXCEPT ![j].assigned_ip_id = B]
          /\ (Answered(1) /\ result'[1].kind \in Refusals) => UNCHANGED LifecycleState]_vars

\* An UpdateJob has unassigned the old and assigned the new partner of an
\* in_progress job and is about to commit both.
C18_Witness ==
    /\ Reassigning /\ pc[1] = "commit"
    /\ is_assigned[jobs[req[1].job_id].assigned_ip_id]
    /\ session[1].ip_flushed = {jobs[req[1].job_id].assigned_ip_id, req[1].new_ip}
    /\ session[1].job.assigned_ip_id = req[1].new_ip

ReferencePatchAccepted ==
    \A j \in JobIds, a \in AdminIds, new \in IpIds \cup {NoIp} :
       (jobs[j].exists /\ jobs[j].status # "in_progress")
          => Answer(JobGate(j), UpdateRequest(j, a, [set |-> TRUE, val |-> new], NoStatusPatch), 0) = Ok

Tick ==
    /\ now < MaxNow
    /\ now' = now + 1
    /\ UNCHANGED <<db, sent_otps, pc, req, session, row_lock, result>>

OtpNext ==
    \/ \E a \in AdminIds, p \in IpIds \cup {NoIp}, phone \in BOOLEAN :
          AllIdle /\ create_job(a, p, phone, {})
    \/ \E j \in JobIds, otp \in Otps, sms_sent \in BOOLEAN : request_start_otp(1, j, otp, sms_sent)
    \/ \E j \in JobIds, otp \in Otps, sms_sent \in BOOLEAN : request_end_otp(1, j, otp, sms_sent)
    \/ \E j \in JobIds, a \in AdminIds, otp \in Otps :
          verify_start_otp_and_start(1, j, a, otp, TRUE)
    \/ \E j \in JobIds, a \in AdminIds, otp \in Otps :
          verify_end_otp_and_finish(1, j, a, otp, TRUE)
    \/ CrudStep(1)
    \/ Commit(1)
    \/ RefreshError(1)
    \/ StorageError(1)
    \/ Respond(1)
    \/ AllIdle /\ Tick

SpecOtp == Init /\ [][OtpNext]_vars

\* C20: once a second code was issued for a purpose and a job, the
\* verification of the first code, which differs from the second, returns
\* false.
C20_FirstCodeRejected ==
    \A j \in JobIds :
       (jobs[j].exists /\ jobs[j].customer_phone) =>
          /\ (Len(sent_otps[j].job_start) = 2
              /\ sent_otps[j].job_start[1] # sent_otps[j].job_start[2])
                => verify_start_otp(j, sent_otps[j].job_start[1]) = "false"
          /\ (Len(sent_otps[j].job_end) = 2
              /\ sent_otps[j].job_end[1] # sent_otps[j].job_end[2])
                => verify_end_otp(j, sent_otps[j].job_end[1]) = "false"

\* The last code generated for the purpose and job.
LastStart(j) == sent_otps[j].job_start[Len(sent_otps[j].job_start)]
LastEnd(j) == sent_otps[j].job_end[Len(sent_otps[j].job_end)]

\* A code was generated for job j, which has a customer phone, has not
\* expired, and no verification with it has succeeded since.
StartCodePending(j) ==
    /\ jobs[j].exists /\ jobs[j].customer_phone
    /\ sent_otps[j].job_start # <<>> /\ now <= sent_otps[j].job_start_expiry
    /\ ~jobs[j].start_otp_verified
EndCodePending(j) ==
    /\ jobs[j].exists /\ jobs[j].customer_phone
    /\ sent_otps[j].job_end # <<>> /\ now <= sent_otps[j].job_end_expiry
    /\ ~jobs[j].end_otp_verified

\* C21: the verification, in a later request and before the expiry time, of
\* the code issued for a purpose and job returns true; the verification that
\* succeeds uses the code up, so that the same code is false from then on.
C21_IssuedCodeVerifiesOnce ==
    /\ [](\A j \in JobIds :
             /\ StartCodePending(j) => verify_start_otp(j, LastStart(j)) = "true"
             /\ EndCodePending(j) => verify_end_otp(j, LastEnd(j)) = "true")
    /\ [][\A j \in JobIds :
             /\ (StartCodePending(j) /\ jobs'[j].start_otp_verified)
                   => (verify_start_otp(j, LastStart(j)))' = "false"
             /\ (EndCodePending(j) /\ jobs'[j].end_otp_verified)
                   => (verify_end_otp(j, LastEnd(j)))' = "false"]_vars

\* C22: the verification of a code whose expiry time is in the past returns
\* false, whatever the code submitted, and retires the stored code, so that
\* every later verification is false until a code is issued again.
C22_ExpiredCodeRejected ==
    \A j \in JobIds, otp \in Otps :
       (jobs[j].exists /\ jobs[j].customer_phone) =>
          /\ (sent_otps[j].job_start # <<>> /\ sent_otps[j].job_start_expiry < now)
                => /\ verify_start_otp(j, otp) \in {"expired", "false"}
                   /\ verified_start(jobs[j], verify_start_otp(j, otp)).start_otp = NoOtp
          /\ (sent_otps[j].job_end # <<>> /\ sent_otps[j].job_end_expiry < now)
                => /\ verify_end_otp(j, otp) \in {"expired", "false"}
                   /\ verified_end(jobs[j], verify_end_otp(j, otp)).end_otp = NoOtp

\* C23: the verification of a wrong code before the expiry time returns
\* false and leaves the stored code as it is, so that the right code still
\* verifies.  (The count of attempts the claim speaks of has no counterpart
\* in CustomerOTPService.)
C23_WrongCodeRetry ==
    \A j \in JobIds, otp \in Otps :
       /\ (StartCodePending(j) /\ otp # LastStart(j))
             => /\ verify_start_otp(j, otp) = "false"
                /\ verified_start(jobs[j], "false") = jobs[j]
                /\ jobs[j].start_otp = Hash(LastStart(j))
       /\ (EndCodePending(j) /\ otp # LastEnd(j))
             => /\ verify_end_otp(j, otp) = "false"
                /\ verified_end(jobs[j], "false") = jobs[j]
                /\ jobs[j].end_otp = Hash(LastEnd(j))

C25_UndeliveredCodeStays ==
    [][\A j \in JobIds :
          (Answered(1) /\ result'[1].kind = "OtpNotSent") =>
             /\ result'[1].code = 200
             /\ sent_otps'[j].job_start # sent_otps[j].job_start
                   => jobs'[j].start_otp = Hash(sent_otps'[j].job_start[Len(sent_otps'[j].job_start)])
             /\ sent_otps'[j].job_end # sent_otps[j].job_end
                   => jobs'[j].end_otp = Hash(sent_otps'[j].job_end[Len(sent_otps'[j].job_end)])]_vars

\* ------------------------------------------------------- status history
\* model/job_status_log.py created_at: the rank of the timestamp of the i-th
\* row of a job among the rows of the job, when the requests are served one
\* at a time (the clock has advanced between two of them).
created_at(j, i) == i

\* get_job_status_history ordering by created_at ascending.
get_job_status_history_Asc(j) ==
    [k \in 1..Len(job_status_logs[j]) |->
        [status |-> job_status_logs[j][k], created_at |-> created_at(j, k)]]

\* crud/job.py get_job_status_history: the rows of the job,
\* order_by(JobStatusLog.created_at.desc()).
get_job_status_history(j) ==
    LET n == Len(job_status_logs[j])
        later(i) == {m \in 1..n : created_at(j, m) > created_at(j, i)}
        at(k) == CHOOSE i \in 1..n : Cardinality(later(i)) = k - 1
    IN [k \in 1..n |-> [status |-> job_status_logs[j][at(k)],
                        created_at |-> created_at(j, at(k))]]

IsPrefix(s, t) == Len(s) <= Len(t) /\ \A i \in 1..Len(s) : s[i] = t[i]

\* C27: the audit log of a job is append-only: across every step that does
\* not delete the job, the entries the job had are all still there,
\* unchanged and in their places.
C27_LogAppendOnly ==
    [][\A j \in JobIds :
          (jobs[j].exists /\ jobs'[j].exists)
             => IsPrefix(job_status_logs[j], job_status_logs'[j])]_vars

\* A request has appended an entry to the log of a job that had entries.
C27_Witness ==
    /\ pc[1] = "done" /\ result[1].kind = "ok"
    /\ \E j \in JobIds : jobs[j].exists /\ Len(job_status_logs[j]) >= 3

\* ------------------------------------------------- checklist item status
ItemIds == {1}                  \* rows of checklist_items
checklist_items == [i \in ItemIds |-> 1]    \* checklist_items.checklist_id
NULL == "NULL"                  \* None, as the value of a String column

\* model/job.py JobChecklistItemStatus: the defaults of the columns.
ColumnDefault == [checked |-> FALSE, is_approved |-> FALSE, comment |-> NULL,
                  admin_comment |-> NULL, document_link |-> NULL]

\* JobChecklistItemStatus(**create_data): a row from the fields given; data
\* is a function from the fields that were set to their values
\* (model_dump(exclude_unset=True) of a JobChecklistItemStatusUpdate).
JobChecklistItemStatus(j, i, data) ==
    LET v(f) == IF f \in DOMAIN data THEN data[f] ELSE ColumnDefault[f] IN
    [job_id |-> j, checklist_item_id |-> i, checked |-> v("checked"),
     is_approved |-> v("is_approved"), comment |-> v("comment"),
     admin_comment |-> v("admin_comment"), document_link |-> v("document_link")]

\* The update passing on every field the partner's request carries.
filtered_update_All(status_update) == status_update

\* api/v1/jobs.py update_checklist_item_status, lines 350-355:
\* model_dump(include={'checked', 'comment', 'document_link'}, exclude_unset=True)
filtered_update(status_update) ==
    [f \in DOMAIN status_update \cap {"checked", "comment", "document_link"} |->
        status_update[f]]

\* The rows of jobs_checklist_item_status for a job and item, by id.
StatusIds(j, i) ==
    {id \in 1..Len(jobs_checklist_item_status) :
        /\ jobs_checklist_item_status[id].job_id = j
        /\ jobs_checklist_item_status[id].checklist_item_id = i}

\* crud/checklist.py get_job_checklist_item_status: .first() of a query that
\* has no ORDER BY returns any of the rows that match, None (0) when none does.
get_job_checklist_item_status(j, i) == IF StatusIds(j, i) = {} THEN {0} ELSE StatusIds(j, i)

ChecklistRequest(by, j, i, sent, status) ==
    [op |-> by, job_id |-> j, admin_id |-> 0, item |-> i, sent |-> sent, status |-> status]

\* crud/checklist.py update_job_checklist_item_status, line 139: the row is
\* looked up; other requests run before the function writes.
StatusLookup(r, rq) ==
    /\ \E id \in get_job_checklist_item_status(rq.job_id, rq.item) :
          session' = [session EXCEPT ![r] =
             [NoSession EXCEPT !.status_id = id,
                               !.status_row = IF id = 0 THEN <<>>
                                              ELSE jobs_checklist_item_status[id]]]
    /\ pc' = [pc EXCEPT ![r] = "upsert"]
    /\ req' = [req EXCEPT ![r] = rq]
    /\ result' = [result EXCEPT ![r] = NoResponse]
    /\ UNCHANGED <<db, sent_otps, now, row_lock>>

\* api/v1/jobs.py update_checklist_item_status: partner p writes the status
\* of item i of job j; status_update is the body of the request.
update_checklist_item_status(r, p, j, i, status_update) ==
    /\ pc[r] = "idle"
    /\ IF ~(jobs[j].exists /\ jobs[j].assigned_ip_id = p)
       THEN Fail(r, Response(404, "NotFound", "none", 0), NoSession)
       ELSE StatusLookup(r, ChecklistRequest("partner_status", j, i, status_update,
                                             filtered_update(status_update)))

\* routes/job.py approve_checklist_item: an administrator writes the status.
approve_checklist_item(r, j, i, status_update) ==
    /\ pc[r] = "idle"
    /\ IF ~jobs[j].exists THEN Fail(r, Response(404, "NotFound", "none", 0), NoSession)
       ELSE StatusLookup(r, ChecklistRequest("admin_status", j, i, status_update,
                                             status_update))

\* setattr(db_status, key, value) for the fields given, then db.commit(): the
\* UPDATE carries the attributes whose value differs from the loaded one.
Updated(row, loaded, data) ==
    [f \in DOMAIN row |->
        IF f \in DOMAIN data /\ data[f] # loaded[f] THEN data[f] ELSE row[f]]

\* crud/checklist.py update_job_checklist_item_status, lines 141-162: insert
\* when the lookup found no row, else update the row found.
update_job_checklist_item_status(r) ==
    LET rq == req[r]
        id == session[r].status_id
    IN
    /\ pc[r] = "upsert"
    /\ IF id = 0 /\ ~jobs[rq.job_id].exists
       THEN Fail(r, Response(404, "NotFound", "none", 0), NoSession)
       ELSE /\ jobs_checklist_item_status' =
                  IF id = 0
                  THEN Append(jobs_checklist_item_status,
                              JobChecklistItemStatus(rq.job_id, rq.item, rq.status))
                  ELSE [jobs_checklist_item_status EXCEPT
                           ![id] = Updated(@, session[r].status_row, rq.status)]
            /\ pc' = [pc EXCEPT ![r] = "done"]
            /\ result' = [result EXCEPT ![r] = Ok]
            /\ UNCHANGED <<jobs, is_assigned, admin_assignments, job_status_logs, log_created_at,
                           jobs_checklists, next_job_id, sent_otps, now, req, session,
                           row_lock>>

\* What a read answers: the items of job j with the status of each.
ItemsResponse(kind, j, items) ==
    [code |-> 200, kind |-> kind, status |-> "none", conflict |-> 0,
     job_id |-> j, items |-> items]

\* The status the partner's read shows without the defaults of lines 292-303.
StatusOrDefault_None(j, i, id) ==
    IF id = 0 THEN <<>> ELSE <<[id |-> id] @@ jobs_checklist_item_status[id]>>

\* api/v1/jobs.py get_job_checklist_items, lines 292-303: the status shown
\* for an item, the row id when there is one (0: none); always a dict.
StatusOrDefault(j, i, id) ==
    IF id = 0
    THEN <<[id |-> 0, job_id |-> j, checklist_item_id |-> i, checked |-> FALSE,
            is_approved |-> FALSE, comment |-> NULL, admin_comment |-> NULL,
            document_link |-> NULL]>>
    ELSE <<[id |-> id] @@ jobs_checklist_item_status[id]>>

\* crud/checklist.py get_job_checklists_status, lines 181-189: the status
\* shown for an item is the row, or None (<<>>) when there is none.
StatusOrNone(j, i, id) ==
    IF id = 0 THEN <<>> ELSE <<[id |-> id] @@ jobs_checklist_item_status[id]>>

\* The read is answered; nothing is written.
ReadAnswered(r, resp) ==
    /\ pc' = [pc EXCEPT ![r] = "done"]
    /\ result' = [result EXCEPT ![r] = resp]
    /\ UNCHANGED <<db, sent_otps, now, req, session, row_lock>>

\* api/v1/jobs.py get_job_checklist_items: partner p reads the items of
\* checklist c of job j.
get_job_checklist_items(r, p, j, c) ==
    LET items == {i \in ItemIds : checklist_items[i] = c} IN
    /\ pc[r] = "idle"
    /\ IF ~(jobs[j].exists /\ jobs[j].assigned_ip_id = p) \/ c \notin jobs_checklists[j]
       THEN Fail(r, Response(404, "NotFound", "none", 0), NoSession)
       ELSE \E ids \in [items -> 0..Len(jobs_checklist_item_status)] :
               /\ \A i \in items : ids[i] \in get_job_checklist_item_status(j, i)
               /\ ReadAnswered(r, ItemsResponse("items", j,
                     [i \in items |-> StatusOrDefault(j, i, ids[i])]))

\* routes/checklist.py read_job_checklists_status with crud/checklist.py
\* get_job_checklists_status: the items of all checklists of job j.
get_job_checklists_status(r, j) ==
    LET items == {i \in ItemIds : checklist_items[i] \in jobs_checklists[j]} IN
    /\ pc[r] = "idle"
    /\ \E ids \in [items -> 0..Len(jobs_checklist_item_status)] :
          /\ \A i \in items : ids[i] \in get_job_checklist_item_status(j, i)
          /\ ReadAnswered(r, ItemsResponse("checklists_status", j,
                [i \in items |-> StatusOrNone(j, i, ids[i])]))

\* The bodies the partners and the administrators send.
PartnerUpdates == {[checked |-> TRUE, comment |-> "text"],
                   [checked |-> TRUE, is_approved |-> TRUE, admin_comment |-> "text"]}
AdminUpdates == {[is_approved |-> TRUE, admin_comment |-> "approved"]}

\* SpecChecklist: job 1, created with partner 1 and with or without the
\* checklist; partners and administrators write and read the status of its
\* items in concurrent requests.
ChecklistInit ==
    /\ jobs = [j \in JobIds |-> IF j = 1 THEN Job("created", 1, FALSE) ELSE NoJob]
    /\ is_assigned = [p \in IpIds |-> FALSE]
    /\ admin_assignments = {<<1, 1>>}
    /\ job_status_logs = [j \in JobIds |-> IF j = 1 THEN <<"created">> ELSE <<>>]
    /\ log_created_at = [j \in JobIds |-> [i \in 1..Len(job_status_logs[j]) |-> 0]]
    /\ \E cl \in SUBSET ChecklistIds : jobs_checklists = [j \in JobIds |-> IF j = 1 THEN cl ELSE {}]
    /\ jobs_checklist_item_status = <<>>
    /\ next_job_id = 2
    /\ sent_otps = [j \in JobIds |-> NoOtps]
    /\ now = 0
    /\ pc = [r \in Slots |-> "idle"]
    /\ req = [r \in Slots |-> NoReq]
    /\ session = [r \in Slots |-> NoSession]
    /\ row_lock = [p \in IpIds |-> 0]
    /\ result = [r \in Slots |-> NoResponse]

ChecklistNext ==
    \E r \in Slots :
       \/ \E p \in IpIds, j \in JobIds, i \in ItemIds, u \in PartnerUpdates :
             update_checklist_item_status(r, p, j, i, u)
       \/ \E j \in JobIds, i \in ItemIds, u \in AdminUpdates : approve_checklist_item(r, j, i, u)
       \/ update_job_checklist_item_status(r)
       \/ \E p \in IpIds, j \in JobIds, c \in ChecklistIds : get_job_checklist_items(r, p, j, c)
       \/ \E j \in JobIds : get_job_checklists_status(r, j)
       \/ Respond(r)

SpecChecklist == ChecklistInit /\ [][ChecklistNext]_vars

\* The request in slot r wrote a checklist item status in this step.
StatusWritten(r, op) == pc[r] = "upsert" /\ pc'[r] = "done" /\ req[r].op = op

\* C28: a partner's checklist update, whatever fields its request carries,
\* leaves is_approved and admin_comment of every row as they were, and a row
\* it creates has is_approved = FALSE and no admin_comment.
C28_PartnerWritesOwnFields ==
    [][\A r \in Slots : StatusWritten(r, "partner_status") =>
          LET old == jobs_checklist_item_status
              new == jobs_checklist_item_status'
          IN
          /\ Len(new) >= Len(old)
          /\ \A id \in 1..Len(old) :
                /\ new[id].is_approved = old[id].is_approved
                /\ new[id].admin_comment = old[id].admin_comment
          /\ \A id \in (Len(old) + 1)..Len(new) :
                /\ new[id].is_approved = FALSE
                /\ new[id].admin_comment = NULL]_vars

\* A partner's request that carried is_approved and admin_comment has written
\* to a row an administrator had approved: the approval and the comment stand.
C28_Witness ==
    \E r \in Slots :
       /\ pc[r] = "done" /\ req[r].op = "partner_status" /\ result[r].code = 200
       /\ {"is_approved", "admin_comment"} \subseteq DOMAIN req[r].sent
       /\ session[r].status_id # 0
       /\ jobs_checklist_item_status[session[r].status_id].checked
       /\ jobs_checklist_item_status[session[r].status_id].admin_comment = "approved"

\* C29: a (job, checklist item) pair never has more than one status row, and
\* when two requests have both written the pair the row carries the fields
\* that each of them wrote.
C29_UpsertRaceSafe ==
    /\ \A j \in JobIds, i \in ItemIds : Cardinality(StatusIds(j, i)) <= 1
    /\ ( /\ \A r \in Slots : /\ pc[r] = "done" /\ result[r].code = 200
                             /\ req[r].op \in {"partner_status", "admin_status"}
         /\ req[1].job_id = req[2].job_id /\ req[1].item = req[2].item )
       => \A id \in StatusIds(req[1].job_id, req[1].item), r \in Slots :
             \A f \in DOMAIN req[r].status \ DOMAIN req[3 - r].status :
                jobs_checklist_item_status[id][f] = req[r].status[f]

\* The read answered in this step from slot r: its kind is k.
ReadDone(r, k) == pc[r] = "idle" /\ pc'[r] = "done" /\ result'[r].kind = k

\* The status a read shows for an item is the default projection.
IsDefault(s) ==
    /\ s # <<>>
    /\ s[1].checked = FALSE /\ s[1].is_approved = FALSE
    /\ s[1].comment = NULL /\ s[1].admin_comment = NULL /\ s[1].document_link = NULL

\* The items of the read answered from slot r that had no status row.
Rowless(r) ==
    {i \in DOMAIN result'[r].items : StatusIds(result'[r].job_id, i) = {}}

\* C30: a read of a job's checklist items, the partner's or the
\* administrators', leaves the status rows as they were and shows the
\* default projection for every item that has no row.
C30_ReadShowsDefault ==
    [][\A r \in Slots : (ReadDone(r, "items") \/ ReadDone(r, "checklists_status")) =>
          /\ jobs_checklist_item_status' = jobs_checklist_item_status
          /\ \A i \in Rowless(r) : IsDefault(result'[r].items[i])]_vars

\* C30 (amended): both reads leave the status rows as they were; for an item
\* that has no row the partner's read shows the default projection and the
\* administrators' read shows no status at all.
C30_ReadDefaultOrNone ==
    [][\A r \in Slots :
          /\ ReadDone(r, "items") =>
                /\ jobs_checklist_item_status' = jobs_checklist_item_status
                /\ \A i \in Rowless(r) : IsDefault(result'[r].items[i])
          /\ ReadDone(r, "checklists_status") =>
                /\ jobs_checklist_item_status' = jobs_checklist_item_status
                /\ \A i \in Rowless(r) : result'[r].items[i] = <<>>]_vars

\* Both reads have answered for an item of job 1 that has no status row.
C30_Witness ==
    /\ StatusIds(1, 1) = {}
    /\ pc[1] = "done" /\ result[1].kind = "items"
    /\ result[1].job_id = 1 /\ result[1].items[1][1].checked = FALSE
    /\ pc[2] = "done" /\ result[2].kind = "checklists_status"
    /\ result[2].job_id = 1 /\ result[2].items[1] = <<>>

\* ------------------------------------------------------------ error codes
\* C31: a request refused because the partner is already assigned answers
\* with code 409, which no invalid transition and no validation error uses.
C31_ConflictCodeDistinct ==
    \A r \in Slots :
       result[r].kind = "Conflict" =>
          /\ result[r].code = 409
          /\ result[r].code # InvalidTransition(1).code

\* ------------------------------------------- release racing with a start
\* SpecRelease: job 1 is in_progress with partner p, who is assigned; job 2,
\* created, has the same partner.  The administrators, all allowed for the
\* partner, pause, finish and delete job 1 and start job 2 in concurrent
\* requests.
ReleaseInit ==
    /\ \E p \in IpIds :
          /\ jobs = [j \in JobIds |-> Job(IF j = 1 THEN "in_progress" ELSE "created", p, FALSE)]
          /\ is_assigned = [q \in IpIds |-> q = p]
    /\ admin_assignments = {<<a, p>> : a \in AdminIds \ SuperAdmins, p \in IpIds}
    /\ job_status_logs = [j \in JobIds |-> IF j = 1 THEN <<"created", "in_progress">>
                                           ELSE <<"created">>]
    /\ log_created_at = [j \in JobIds |-> [i \in 1..Len(job_status_logs[j]) |-> 0]]
    /\ jobs_checklists = [j \in JobIds |-> {}]
    /\ jobs_checklist_item_status = <<>>
    /\ next_job_id = 3
    /\ sent_otps = [j \in JobIds |-> NoOtps]
    /\ now = 0
    /\ pc = [r \in Slots |-> "idle"]
    /\ req = [r \in Slots |-> NoReq]
    /\ session = [r \in Slots |-> NoSession]
    /\ row_lock = [p \in IpIds |-> 0]
    /\ result = [r \in Slots |-> NoResponse]

ReleaseNext ==
    \E r \in Slots :
       \/ \E a \in AdminIds : Route(r, JobGate(1), Request("pause", 1, a), TRUE)
       \/ \E a \in AdminIds : Route(r, LegacyGate(1), Request("finish", 1, a), TRUE)
       \/ \E a \in AdminIds : Route(r, JobGate(1), Request("delete", 1, a), TRUE)
       \/ \E a \in AdminIds : Route(r, LegacyGate(2), Request("start", 2, a), TRUE)
       \/ CrudStep(r)
       \/ Commit(r)
       \/ RefreshError(r)
       \/ StorageError(r)
       \/ Respond(r)

SpecRelease == ReleaseInit /\ [][ReleaseNext]_vars

\* C32: once the requests that pause, finish or delete job 1 and start job 2
\* have all completed, the partner is flagged assigned exactly when one of
\* the two jobs is in_progress.
C32_FlagAfterRelease ==
    AllIdle => \A p \in IpIds : is_assigned[p] <=> ActiveJobs(p) # {}

\* ----------------------------------------------------------- row locks
\* The ip_user rows whose row lock the transaction of slot r holds.
LocksHeld(r) == {p \in IpIds : row_lock[p] = r}

\* C33: no transaction holds the row locks of two different partners at the
\* same time, an UpdateJob that reassigns an in_progress job included.
C33_OneRowLockPerTransaction == \A r \in Slots : Cardinality(LocksHeld(r)) <= 1

\* ------------------------------------------------- order of the audit log
MaxClockLog == 4       \* audit entries a job of SpecClock gets at most

\* SpecClock: from the state of SpecRelease, the superadmin starts and pauses
\* job 1 and clears its partner reference in concurrent requests while the
\* clock advances.
ClockNext ==
    \/ \E r \in Slots, a \in SuperAdmins :
          \/ /\ Len(job_status_logs[1]) < MaxClockLog
             /\ Route(r, LegacyGate(1), Request("start", 1, a), TRUE)
          \/ /\ Len(job_status_logs[1]) < MaxClockLog
             /\ Route(r, JobGate(1), Request("pause", 1, a), TRUE)
          \/ update_existing_job(r, 1, a, [set |-> TRUE, val |-> NoIp], NoStatusPatch, TRUE)
          \/ CrudStep(r)
          \/ Commit(r)
          \/ Respond(r)
    \/ Tick

SpecClock == ReleaseInit /\ [][ClockNext]_vars

\* C34: the audit entries of a job are in the order of their timestamps: an
\* entry committed after another one of the same job never has the smaller
\* timestamp of the two (the claim, which asks for a strictly greater one,
\* implies this).
C34_LogOrderedByCommit ==
    \A j \in JobIds :
       \A i \in 1..Len(log_created_at[j]), k \in 1..Len(log_created_at[j]) :
          i < k => log_created_at[j][i] <= log_created_at[j][k]

\* --------------------------------------------- concurrent release, delete
\* C35: of the concurrent requests that pause or finish job 1 of SpecRelease
\* at most one succeeds: the job, which is not started again, gets exactly
\* one audit entry, paused or completed, after its in_progress entry.
C35_OneReleaseLogged ==
    Cardinality({i \in 1..Len(job_status_logs[1]) :
                    job_status_logs[1][i] \in {"paused", "completed"}}) <= 1

\* C36: a DeleteJob of a job that is not in_progress leaves the is_assigned
\* flag of every partner as it was.
C36_DeleteKeepsFlags ==
    [][(/\ pc[1] = "commit" /\ req[1].op = "delete" /\ jobs' # jobs
        /\ jobs[req[1].job_id].status # "in_progress")
          => is_assigned' = is_assigned]_vars

\* C37: every job whose status is in_progress has a partner reference.
C37_ActiveJobHasPartner ==
    \A j \in JobIds :
       (jobs[j].exists /\ jobs[j].status = "in_progress") => jobs[j].assigned_ip_id # NoIp

\* ------------------------------------------------ one code, one start
\* SpecCode: job 1 has a customer phone and a partner, and a job_start code
\* was sent to its customer; job 2 has a partner and no customer phone.  The
\* superadmin starts the jobs through the verifying endpoint, each request
\* carrying the code that was sent, and pauses them, in concurrent requests.
CodeInit ==
    /\ now = 0
    /\ \E p \in IpIds, otp \in Otps :
          /\ jobs = [j \in JobIds |->
                IF j = 1 THEN generate_and_store_start_otp(Job("created", p, TRUE), otp)
                ELSE Job("created", p, FALSE)]
          /\ sent_otps = [j \in JobIds |->
                IF j = 1 THEN [NoOtps EXCEPT !.job_start = <<otp>>,
                                             !.job_start_expiry = now + OTP_EXPIRY_MINUTES]
                ELSE NoOtps]
    /\ is_assigned = [p \in IpIds |-> FALSE]
    /\ admin_assignments = {<<1, 1>>}
    /\ job_status_logs = [j \in JobIds |-> <<"created">>]
    /\ log_created_at = [j \in JobIds |-> <<0>>]
    /\ jobs_checklists = [j \in JobIds |-> {}]
    /\ jobs_checklist_item_status = <<>>
    /\ next_job_id = 3
    /\ pc = [r \in Slots |-> "idle"]
    /\ req = [r \in Slots |-> NoReq]
    /\ session = [r \in Slots |-> NoSession]
    /\ row_lock = [p \in IpIds |-> 0]
    /\ result = [r \in Slots |-> NoResponse]

CodeNext ==
    \E r \in Slots, a \in SuperAdmins :
       \/ \E j \in JobIds : verify_start_otp_and_start(r, j, a, sent_otps[1].job_start[1], TRUE)
       \/ \E j \in JobIds : pause_existing_job(r, j, a, TRUE)
       \/ CrudStep(r)
       \/ Commit(r)
       \/ Respond(r)

SpecCode == CodeInit /\ [][CodeNext]_vars

\* The transitions into in_progress that the audit log of job j records.
Starts(j) == {i \in 1..Len(job_status_logs[j]) : job_status_logs[j][i] = "in_progress"}

Wanted(r) ==
    IF pc[r] = "run" THEN Crud(session[r], req[r], 0).lock
    ELSE IF pc[r] = "assign" THEN update_job_assign(session[r], req[r], 0).lock
    ELSE 0

\* The statement waits: another transaction holds the row.
Waiting(r) == Wanted(r) # 0 /\ ~CanLock(r, Wanted(r))

\* A database that detects no cycle of waiting transactions: a statement
\* that waits is not at its commit.
DeadlockDetected_Never(r) ==
    /\ Waiting(r) /\ Waiting(row_lock[Wanted(r)])
    /\ row_lock[Wanted(row_lock[Wanted(r)])] = r
    /\ pc[r] = "commit"
    /\ Fail(r, StorageFailure, session[r])

\* The transaction of slot r waits for a row held by a transaction that waits
\* for a row held by r: the database aborts the statement of r with a
\* deadlock error, which assign_ip answers with 500 (crud/ip.py lines 73-76)
\* and update_job with db.rollback() (crud/job.py lines 335-337).
DeadlockDetected(r) ==
    /\ Waiting(r) /\ Waiting(row_lock[Wanted(r)])
    /\ row_lock[Wanted(row_lock[Wanted(r)])] = r
    /\ Fail(r, StorageFailure, session[r])

\* SpecSwap: jobs 1 and 2 are in_progress with partners 1 and 2; two
\* concurrent UpdateJob requests, one per slot, change partner references.
\* Every statement that can run does (weak fairness), and so does the
\* deadlock detection of the database.
SwapInit ==
    /\ jobs = [j \in JobIds |-> Job("in_progress", j, FALSE)]
    /\ is_assigned = [p \in IpIds |-> TRUE]
    /\ admin_assignments = {<<1, 1>>}
    /\ job_status_logs = [j \in JobIds |-> <<"created", "in_progress">>]
    /\ log_created_at = [j \in JobIds |-> <<0, 0>>]
    /\ jobs_checklists = [j \in JobIds |-> {}]
    /\ jobs_checklist_item_status = <<>>
    /\ next_job_id = 3
    /\ sent_otps = [j \in JobIds |-> NoOtps]
    /\ now = 0
    /\ pc = [r \in Slots |-> "idle"]
    /\ req = [r \in Slots |-> NoReq]
    /\ session = [r \in Slots |-> NoSession]
    /\ row_lock = [p \in IpIds |-> 0]
    /\ result = [r \in Slots |-> NoResponse]

SwapNext ==
    \E r \in Slots :
       \/ \E j \in JobIds, a \in SuperAdmins, ip \in IpPatches :
             update_existing_job(r, j, a, ip, NoStatusPatch, TRUE)
       \/ CrudStep(r)
       \/ AssignStep(r)
       \/ Commit(r)
       \/ DeadlockDetected(r)

SpecSwap ==
    /\ SwapInit /\ [][SwapNext]_vars
    /\ \A r \in Slots : /\ WF_vars(CrudStep(r)) /\ WF_vars(AssignStep(r))
                        /\ WF_vars(Commit(r)) /\ WF_vars(DeadlockDetected(r))

\* C39: every UpdateJob request that was accepted is answered, with success
\* or with an error, whatever the other request does; no two transactions
\* wait for each other's partner rows for ever.
C39_ActionsTerminate ==
    \A r \in Slots : (pc[r] \in {"run", "assign", "commit"}) ~> (pc[r] = "done")

\* Two reassignments that swap the partners of the two jobs waited for each
\* other's rows; one was answered with the error and the other goes on.
C39_Witness ==
    \E r \in Slots :
       /\ pc[r] = "done" /\ result[r].kind = "StorageError"
       /\ pc[3 - r] = "assign" /\ req[3 - r].op = "update"
       /\ row_lock[jobs[req[3 - r].job_id].assigned_ip_id] = 3 - r
       /\ Wanted(3 - r) \in IpIds /\ CanLock(3 - r, Wanted(3 - r))

====
